---- MODULE Spec2Model ----
(***************************************************************************)
(* The resumable training orchestrator of backend/python-rl:               *)
(* ppo_trainer.py (CheckpointManager, validate_checkpoint_config, train)   *)
(* and metrics_tracker.py (MetricsTracker).                                *)
(*                                                                         *)
(* One checkpoint directory on disk is shared by successive processes,     *)
(* each running train() once.  A process can be cancelled                  *)
(* (KeyboardInterrupt), can fail (an exception of the training step) and   *)
(* can be killed at any point; the next process starts from what is on     *)
(* disk.  Strings are sequences of one-character strings, so that          *)
(* formatting, splitting and parsing of checkpoint names are computed.     *)
(***************************************************************************)
EXTENDS Integers, Sequences, FiniteSets, TLC

\* ------------------------------------------------------------------ bounds
\* Number of successive processes (calls of train()) on one directory.
MaxRuns == 2
\* Largest episodes_this_iter one training step reports.
MaxDelta == 1
\* Longest metrics history handed to generate_summary.
MaxHistory == 22
\* Largest of the consecutive iterations whose checkpoint names are parsed.
MaxNameIteration == 120
\* Most resets of one environment wrapper.
MaxResets == 4
\* Largest total_episodes of the checkpoint the wrapper's process resumes from.
MaxEnvOffset == 5

\* ------------------------------------------------------- program constants
\* 'action_size': 7 in the metadata, and the 7 of validate_checkpoint_config.
ActionSize == 7

\* generate_summary: the size of the recent window
RecentWindowSize == 20

\* The width of {iteration:06d}.
NameWidth == 6

\* ------------------------------------------------------------------ strings
DigitChars == <<"0", "1", "2", "3", "4", "5", "6", "7", "8", "9">>

IsDigitChar(c) == \E d \in 1..10 : DigitChars[d] = c

CharVal(c) == (CHOOSE d \in 1..10 : DigitChars[d] = c) - 1

RECURSIVE DecimalDigits(_)
DecimalDigits(n) ==
    IF n < 10 THEN <<DigitChars[n + 1]>>
    ELSE DecimalDigits(n \div 10) \o <<DigitChars[(n % 10) + 1]>>

RECURSIVE ZeroPad(_, _)
ZeroPad(s, w) == IF Len(s) >= w THEN s ELSE ZeroPad(<<"0">> \o s, w)

\* The number cut to its last six digits.
Format06dTruncated(n) ==
    LET s == ZeroPad(DecimalDigits(n), NameWidth)
    IN  SubSeq(s, Len(s) - NameWidth + 1, Len(s))

\* f"{n:06d}" for n >= 0
Format06d(n) == ZeroPad(DecimalDigits(n), NameWidth)

CheckpointPrefix == <<"c", "h", "e", "c", "k", "p", "o", "i", "n", "t", "_">>

\* checkpoint_name = f"checkpoint_{iteration:06d}"
CheckpointName(n) == CheckpointPrefix \o Format06d(n)

\* sub in s
Contains(s, sub) ==
    \E i \in 1..(Len(s) - Len(sub) + 1) : SubSeq(s, i, i + Len(sub) - 1) = sub

\* s.split(sep)
RECURSIVE Split(_, _)
Split(s, sep) ==
    IF \A i \in 1..Len(s) : s[i] # sep THEN <<s>>
    ELSE LET k == CHOOSE i \in 1..Len(s) :
                     s[i] = sep /\ \A j \in 1..(i - 1) : s[j] # sep
         IN  <<SubSeq(s, 1, k - 1)>> \o Split(SubSeq(s, k + 1, Len(s)), sep)

\* int(s) succeeds on a non-empty string of decimal digits
IntParses(s) == Len(s) > 0 /\ \A i \in 1..Len(s) : IsDigitChar(s[i])

RECURSIVE IntOf(_)
IntOf(s) ==
    IF Len(s) = 0 THEN 0
    ELSE 10 * IntOf(SubSeq(s, 1, Len(s) - 1)) + CharVal(s[Len(s)])

\* ----------------------------------------------------------- configurations
\* config.yaml of one process: the fields train() and its callees read.
\* Two episodes per iteration.  Three configurations: 4 episodes (2
\* iterations exactly) with a checkpoint at every iteration; 3 episodes (2
\* iterations, the division leaving a remainder) with a checkpoint every second
\* iteration; and another observation size, with 1 episode (1 iteration, off the
\* cadence).
Config(obs, total, freq) ==
    [observation_size |-> obs,
     max_steps        |-> 1,
     train_batch_size |-> 2,
     total_episodes   |-> total,
     checkpoint_freq  |-> freq]

Configs == {Config(1, 4, 1), Config(1, 3, 2), Config(2, 1, 2)}

\* episodes_per_iteration = train_batch_size // max_steps
EpisodesPerIteration(train_batch_size, max_steps) == train_batch_size \div max_steps

\* The remainder forgotten.
TrainingIterationsTruncated(total_episodes, episodes_per_iteration) ==
    total_episodes \div episodes_per_iteration

\* training_iterations = total_episodes // episodes_per_iteration, plus one
\* when the division leaves a remainder
TrainingIterations(total_episodes, episodes_per_iteration) ==
    (total_episodes \div episodes_per_iteration)
        + (IF total_episodes % episodes_per_iteration # 0 THEN 1 ELSE 0)

BudgetOf(cfg) ==
    TrainingIterations(cfg.total_episodes,
                       EpisodesPerIteration(cfg.train_batch_size, cfg.max_steps))

\* The largest training_iterations of any configuration of the model.
MaxIterations == CHOOSE m \in {BudgetOf(c) : c \in Configs} :
                     \A c \in Configs : BudgetOf(c) <= m

\* The checkpoint directories train() can name.
Names == {CheckpointName(n) : n \in 0..MaxIterations}

\* ------------------------------------------------------------------- files
Absent == [st |-> "absent", data |-> <<>>]
Corrupt == [st |-> "corrupt", data |-> <<>>]
File(content) == [st |-> "ok", data |-> content]

\* dict.get(key, default)
Get(m, k, default) == IF k \in DOMAIN m THEN m[k] ELSE default

\* The truth value of m.get(k): None (absent) and 0 are false.
Truthy(m, k) == k \in DOMAIN m /\ m[k] # 0

EmptyMeta == <<>>

NoRestore == <<>>

\* --------------------------------------------------------------- validation
\* "Observation size mismatch" of validate_checkpoint_config
ObservationIssue(checkpoint_metadata, current_config) ==
    IF Truthy(checkpoint_metadata, "observation_size")
       /\ checkpoint_metadata["observation_size"] # current_config.observation_size
    THEN <<"observation_size">> ELSE <<>>

\* The action size left unchecked.
ActionIssueIgnored(checkpoint_metadata) == <<>>

\* "Action space changed" of validate_checkpoint_config
ActionIssue(checkpoint_metadata) ==
    IF Truthy(checkpoint_metadata, "action_size")
       /\ checkpoint_metadata["action_size"] # ActionSize
    THEN <<"action_size">> ELSE <<>>

\* The warnings validate_checkpoint_config prints (max_steps, train_batch_size).
SoftWarnings(checkpoint_metadata, current_config) ==
    (IF Truthy(checkpoint_metadata, "max_steps")
        /\ checkpoint_metadata["max_steps"] # current_config.max_steps
     THEN <<"max_steps">> ELSE <<>>)
    \o
    (IF Truthy(checkpoint_metadata, "train_batch_size")
        /\ checkpoint_metadata["train_batch_size"] # current_config.train_batch_size
     THEN <<"train_batch_size">> ELSE <<>>)

\* A changed max_steps or train_batch_size reported as an issue.
SoftMismatchAsIssue(checkpoint_metadata, current_config) ==
    LET found == ObservationIssue(checkpoint_metadata, current_config)
                     \o ActionIssue(checkpoint_metadata)
                     \o SoftWarnings(checkpoint_metadata, current_config)
    IN  [ok |-> Len(found) = 0, issues |-> found, warnings |-> <<>>]

\* Missing metadata reported as an issue.
ValidateRequiringMetadata(checkpoint_metadata, current_config) ==
    LET found == (IF DOMAIN checkpoint_metadata = {} THEN <<"no_metadata">> ELSE <<>>)
                     \o ObservationIssue(checkpoint_metadata, current_config)
                     \o ActionIssue(checkpoint_metadata)
    IN  [ok |-> Len(found) = 0, issues |-> found, warnings |-> <<>>]

\* The validation stopped at its first hard mismatch.
ValidateFirstIssueOnly(checkpoint_metadata, current_config) ==
    LET obs == ObservationIssue(checkpoint_metadata, current_config)
        found == IF obs # <<>> THEN obs ELSE ActionIssue(checkpoint_metadata)
    IN  [ok |-> Len(found) = 0, issues |-> found,
         warnings |-> SoftWarnings(checkpoint_metadata, current_config)]

\* validate_checkpoint_config(checkpoint_metadata, current_config) -> (bool, list)
ValidateCheckpointConfig(checkpoint_metadata, current_config) ==
    IF DOMAIN checkpoint_metadata = {}
    THEN [ok |-> TRUE, issues |-> <<>>, warnings |-> <<"no_metadata">>]
    ELSE LET found == ObservationIssue(checkpoint_metadata, current_config)
                          \o ActionIssue(checkpoint_metadata)
         IN  [ok       |-> Len(found) = 0,
              issues   |-> found,
              warnings |-> SoftWarnings(checkpoint_metadata, current_config)]

\* ------------------------------------------------------------- checkpoints
\* The metadata document of save_checkpoint: the config fields, then
\* metadata.update(metrics).  The learning rates, entropy coefficients, gamma,
\* timestamp and checkpoint_path are written for reference and read nowhere.
\* The batch size recorded in the place of the observation size.
BuildMetadataBatchAsObservation(iter, cfg, metrics) ==
    metrics @@ [iteration        |-> iter,
                observation_size |-> cfg.train_batch_size,
                action_size      |-> ActionSize,
                max_steps        |-> cfg.max_steps,
                train_batch_size |-> cfg.train_batch_size]

BuildMetadata(iter, cfg, metrics) ==
    metrics @@ [iteration        |-> iter,
                observation_size |-> cfg.observation_size,
                action_size      |-> ActionSize,
                max_steps        |-> cfg.max_steps,
                train_batch_size |-> cfg.train_batch_size]

\* The record appended without the episode count of the metrics.
IndexRecordWithoutTotal(iter, metrics) ==
    [iteration      |-> iter,
     path           |-> CheckpointName(iter),
     total_episodes |-> 0]

\* The record save_checkpoint appends to checkpoint_history.
IndexRecord(iter, metrics) ==
    [iteration      |-> iter,
     path           |-> CheckpointName(iter),
     total_episodes |-> Get(metrics, "total_episodes", 0)]

\* ------------------------------------------------------------------- state
VARIABLES
    \* the checkpoint directory
    indexFile,              \* checkpoint_index.json
    ckptDir,                \* checkpoint_<n>/: the snapshot and metadata.json
    metricsFile,            \* metrics_history.json
    summaryFile,            \* training_summary.json
    \* the process running train()
    pc,                     \* where train() is; "done" when no process runs
    config,
    restore_checkpoint,     \* final component of the resume path, or NoRestore
    checkpoint_history,     \* CheckpointManager.checkpoint_history
    metrics_history,        \* MetricsTracker.metrics_history
    metadata,
    is_valid,
    issues,
    episodes_per_iteration,
    training_iterations,
    episode_offset,
    start_iteration,
    iteration,              \* the loop variable; 0 while unbound
    total_episodes_completed,
    episodes_this_iter,
    result,                 \* what trainer.train() returned last
    saveKind,               \* the save_checkpoint call in progress
    outcome,                \* how train() ended
    cause,                  \* what ended it
    stops,                  \* calls of trainer.stop()
    \* the environment wrapper the trainer built (RLlibMinecraftEnv)
    episode_count,          \* self.episode_count; 0 while no wrapper exists
    episode_numbers,        \* options['episode_number'] of its resets, in order
    env_alive,              \* the wrapper exists and can be reset
    \* history of the run, read by the properties only
    runs,                   \* processes started so far
    trainLog,               \* iterations whose trainer.train() was called
    accounted,              \* iteration -> delta added to the counter
    enteredTry,
    startIndexFile,
    startMetricsFile,
    metaFileAtLoad,
    snapAtLoad,
    prev                    \* the previous process, when it ended interrupted

diskVars == <<indexFile, ckptDir, metricsFile, summaryFile>>
setupVars == <<config, restore_checkpoint, metadata, is_valid, issues,
               episodes_per_iteration, training_iterations, episode_offset,
               start_iteration>>
loopVars == <<iteration, total_episodes_completed, episodes_this_iter, result>>
memVars == <<checkpoint_history, metrics_history>>
envVars == <<episode_count, episode_numbers, env_alive>>
histVars == <<runs, startIndexFile, startMetricsFile, metaFileAtLoad,
              snapAtLoad, prev>>
vars == <<diskVars, pc, setupVars, loopVars, memVars, saveKind, outcome, cause,
          stops, envVars, trainLog, accounted, enteredTry, histVars>>

\* No environment wrapper has been built.
NoEnv ==
    /\ episode_count = 0
    /\ episode_numbers = <<>>
    /\ env_alive = FALSE

\* The trainer has built its environment wrapper with this episode offset and
\* has not reset it yet.
EnvBuilt(offset) ==
    /\ episode_count = offset
    /\ episode_numbers = <<>>
    /\ env_alive = TRUE

DefaultConfig == CHOOSE c \in Configs : TRUE

NoPrev == [outcome |-> "none", iteration |-> 0, config |-> DefaultConfig,
           restore |-> NoRestore, accounted |-> <<>>, clean |-> FALSE,
           total |-> 0]

\* The memory of a process that does not exist.
NoProcess ==
    /\ NoEnv
    /\ config = DefaultConfig
    /\ restore_checkpoint = NoRestore
    /\ checkpoint_history = <<>>
    /\ metrics_history = <<>>
    /\ metadata = EmptyMeta
    /\ is_valid = TRUE
    /\ issues = <<>>
    /\ episodes_per_iteration = 0
    /\ training_iterations = 0
    /\ episode_offset = 0
    /\ start_iteration = 1
    /\ iteration = 0
    /\ total_episodes_completed = 0
    /\ episodes_this_iter = 0
    /\ result = EmptyMeta
    /\ saveKind = "none"
    /\ stops = 0
    /\ trainLog = <<>>
    /\ accounted = <<>>
    /\ enteredTry = FALSE
    /\ startIndexFile = Absent
    /\ startMetricsFile = Absent
    /\ metaFileAtLoad = "none"
    /\ snapAtLoad = "none"

EmptyDisk ==
    /\ indexFile = Absent
    /\ ckptDir = [n \in Names |-> [snap |-> "none", meta |-> Absent]]
    /\ metricsFile = Absent
    /\ summaryFile = Absent

Init ==
    /\ EmptyDisk
    /\ NoProcess
    /\ pc = "done"
    /\ outcome = "none"
    /\ cause = "none"
    /\ runs = 0
    /\ prev = NoPrev

\* ------------------------------------------------------------------ resume
\* The first record taken as the latest.
GetFirstCheckpoint(history) ==
    IF history = <<>> THEN NoRestore ELSE history[1].path

\* get_latest_checkpoint: the path of the last record, None on an empty
\* history (the final component of the path, as restore_checkpoint is)
GetLatestCheckpoint(history) ==
    IF history = <<>> THEN NoRestore ELSE history[Len(history)].path

\* get_checkpoint_metadata: the metadata document, {} when the file is absent
GetCheckpointMetadata(dir) == IF dir.meta.st = "ok" THEN dir.meta.data ELSE EmptyMeta

\* The iteration read from the last field of the name.
ParsedIterationLastField(name) ==
    LET fields == Split(name, "_") IN
    IF Contains(name, CheckpointPrefix) /\ IntParses(fields[Len(fields)])
    THEN IntOf(fields[Len(fields)])
    ELSE -1

\* int(checkpoint_path.name.split('_')[1]) when 'checkpoint_' is in the name
\* and the text parses; -1 when the iteration is not parsed.
ParsedIteration(name) ==
    IF Contains(name, CheckpointPrefix) /\ IntParses(Split(name, "_")[2])
    THEN IntOf(Split(name, "_")[2])
    ELSE -1

\* The resumed run begun at the iteration of the checkpoint itself.
StartIterationSame(iteration_num) == iteration_num

\* start_iteration = iteration_num + 1
StartIterationAfter(iteration_num) == iteration_num + 1

ResolveStartIteration(name) ==
    IF ParsedIteration(name) >= 0
    THEN StartIterationAfter(ParsedIteration(name)) ELSE 1

\* The estimate left out: the offset is always the metadata's total_episodes.
OffsetFromMetadataOnly(meta, name, epi) == Get(meta, "total_episodes", 0)

\* episode_offset: metadata's total_episodes, or the estimate
\* iteration_num * episodes_per_iteration when that is 0 and iteration_num > 0
ResolveEpisodeOffset(meta, name, epi) ==
    LET from_meta == Get(meta, "total_episodes", 0)
        iteration_num == ParsedIteration(name)
    IN  IF iteration_num > 0 /\ from_meta = 0
        THEN iteration_num * epi
        ELSE from_meta

\* The exit on an invalid checkpoint left out.
RefusesResumeNever(valid) == FALSE

\* if not is_valid: ... sys.exit(1)
RefusesResume(valid) == ~valid

\* --------------------------------------------------------------- the loop
\* The counter moved the wrong way.
AdvanceCounterBackwards(total, delta) == total - delta

\* total_episodes_completed += episodes_this_iter
AdvanceCounter(total, delta) == total + delta

\* The cadence test taken one iteration early.
IsCadenceEarly(iter, checkpoint_freq) == (iter + 1) % checkpoint_freq = 0

\* if iteration % checkpoint_freq == 0
IsCadence(iter, checkpoint_freq) == iter % checkpoint_freq = 0

\* The final save taken at the first iteration of the range, not the last.
FinalSaveAtStart(start, last) == start

\* The final save is taken at training_iterations.
FinalSaveIteration(start, last) == last

\* The interrupted save taken at the iteration before the loop variable.
InterruptSaveAtPrevious(iter) == iter - 1

\* The interrupted save is taken at the loop variable.
InterruptSaveIteration(iter) == iter

\* The policies of the multi-agent policy set.
Policies == {"seeker_policy", "hider_policy"}

\* learner_info[policy].get('learner_stats', {}) when the policy is in
\* learner_info; the statistics stay at their initial 0 when it is not.
PolicyStats(learner_info, policy) ==
    IF policy \in DOMAIN learner_info
    THEN Get(learner_info[policy], "learner_stats", EmptyMeta)
    ELSE EmptyMeta

\* env_runners_stats.get('episodes_this_iter', 0) of train()
EpisodesThisIter(res) ==
    Get(Get(res, "env_runners", EmptyMeta), "episodes_this_iter", 0)

\* The hider's entropy read from the seeker's statistics.
ExtractMetricsStrict(res, iter, delta, total, max_steps) ==
    LET env == Get(res, "env_runners", EmptyMeta)
        learner_info == Get(Get(res, "info", EmptyMeta), "learner", EmptyMeta)
        seeker == PolicyStats(learner_info, "seeker_policy")
        hider == PolicyStats(learner_info, "hider_policy")
    IN  [iteration           |-> iter,
         episode_len_mean    |-> Get(env, "episode_len_mean", 0),
         episode_reward_mean |-> Get(env, "episode_reward_mean", 0),
         episodes_this_iter  |-> delta,
         total_episodes      |-> total,
         max_steps           |-> max_steps,
         seeker_kl           |-> Get(seeker, "kl", 0),
         hider_kl            |-> Get(hider, "kl", 0),
         seeker_entropy      |-> Get(seeker, "entropy", 0),
         hider_entropy       |-> Get(seeker, "entropy", 0),
         seeker_loss         |-> Get(seeker, "total_loss", 0),
         hider_loss          |-> Get(hider, "total_loss", 0),
         seeker_vf_loss      |-> Get(seeker, "vf_loss", 0),
         hider_vf_loss       |-> Get(hider, "vf_loss", 0)]

\* The record extract_metrics builds, appends and returns (the timestamp
\* left out).
ExtractMetrics(res, iter, delta, total, max_steps) ==
    LET env == Get(res, "env_runners", EmptyMeta)
        learner_info == Get(Get(res, "info", EmptyMeta), "learner", EmptyMeta)
        seeker == PolicyStats(learner_info, "seeker_policy")
        hider == PolicyStats(learner_info, "hider_policy")
    IN  [iteration           |-> iter,
         episode_len_mean    |-> Get(env, "episode_len_mean", 0),
         episode_reward_mean |-> Get(env, "episode_reward_mean", 0),
         episodes_this_iter  |-> delta,
         total_episodes      |-> total,
         max_steps           |-> max_steps,
         seeker_kl           |-> Get(seeker, "kl", 0),
         hider_kl            |-> Get(hider, "kl", 0),
         seeker_entropy      |-> Get(seeker, "entropy", 0),
         hider_entropy       |-> Get(hider, "entropy", 0),
         seeker_loss         |-> Get(seeker, "total_loss", 0),
         hider_loss          |-> Get(hider, "total_loss", 0),
         seeker_vf_loss      |-> Get(seeker, "vf_loss", 0),
         hider_vf_loss       |-> Get(hider, "vf_loss", 0)]

\* The keys of a metrics record, in the order extract_metrics builds it.
MetricsKeys ==
    <<"iteration", "episode_len_mean", "episode_reward_mean",
      "episodes_this_iter", "total_episodes", "max_steps", "seeker_kl",
      "hider_kl", "seeker_entropy", "hider_entropy", "seeker_loss",
      "hider_loss", "seeker_vf_loss", "hider_vf_loss">>

\* json.dump of the history: a list of objects, each a list of key/value
\* members in the record's key order.
JsonDumpRecord(record) ==
    [i \in 1..Len(MetricsKeys) |-> <<MetricsKeys[i], record[MetricsKeys[i]]>>]

JsonDump(history) == [i \in 1..Len(history) |-> JsonDumpRecord(history[i])]

\* json.load: each object becomes a dict of its members.
JsonLoadRecord(members) ==
    [k \in {members[i][1] : i \in DOMAIN members} |->
        members[CHOOSE i \in DOMAIN members : members[i][1] = k][2]]

JsonLoad(doc) == [i \in 1..Len(doc) |-> JsonLoadRecord(doc[i])]

\* json.load of _load_checkpoint_index is not guarded: an index file that
\* does not parse makes the constructor of CheckpointManager raise.
IndexLoadRaises(file) == file.st = "corrupt"

\* The try/except of _load_existing_metrics left out.
MetricsLoadUnguarded(file) == file.st = "corrupt"

\* json.load of _load_existing_metrics is inside try/except Exception: the
\* constructor of MetricsTracker never raises on the file's content.
MetricsLoadRaises(file) == FALSE

\* _load_existing_metrics: the file's history; the empty history when the
\* file is absent or json.load raises (the exception is caught and printed)
LoadExistingMetrics(file) == IF file.st = "ok" THEN JsonLoad(file.data) ELSE <<>>

\* Only the records of the running process persisted.
PersistNewRecords(history, loaded) == JsonDump(SubSeq(history, loaded + 1, Len(history)))

\* save_metrics: json.dump(self.metrics_history, f) into a file opened 'w'
PersistedHistory(history, loaded) == JsonDump(history)

RECURSIVE SumOver(_)
SumOver(f) ==
    IF DOMAIN f = {} THEN 0
    ELSE LET k == CHOOSE k \in DOMAIN f : TRUE
         IN  f[k] + SumOver([x \in DOMAIN f \ {k} |-> f[x]])

\* np.mean of a non-empty list, as the exact fraction sum / count
Mean(values) == [sum |-> SumOver(values), count |-> Len(values)]

\* list[-n:] of Python: the last n elements, the whole list when n is 0 or
\* not less than its length
LastSlice(list, n) ==
    IF n = 0 \/ n >= Len(list) THEN list
    ELSE SubSeq(list, Len(list) - n + 1, Len(list))

\* The averages taken over the whole history.
RecentWindowAll(history) == Len(history)

\* recent_window = min(20, len(self.metrics_history))
RecentWindow(history) ==
    IF RecentWindowSize < Len(history) THEN RecentWindowSize ELSE Len(history)

\* generate_summary: the empty summary of an empty history, else the summary
\* of its last record and of its recent window
GenerateSummary(history) ==
    IF history = <<>> THEN EmptyMeta
    ELSE
    LET recent == LastSlice(history, RecentWindow(history))
        latest == history[Len(history)]
    IN  [total_iterations          |-> Len(history),
         total_episodes            |-> latest["total_episodes"],
         final_episode_length      |-> latest["episode_len_mean"],
         final_episode_reward      |-> latest["episode_reward_mean"],
         avg_episode_length_recent |->
             Mean([i \in DOMAIN recent |-> recent[i]["episode_len_mean"]]),
         avg_episode_reward_recent |->
             Mean([i \in DOMAIN recent |-> recent[i]["episode_reward_mean"]]),
         seeker_final_kl           |-> latest["seeker_kl"],
         hider_final_kl            |-> latest["hider_kl"],
         seeker_final_entropy      |-> latest["seeker_entropy"],
         hider_final_entropy       |-> latest["hider_entropy"]]

\* The summary file written although the history is empty.
SummaryAlwaysWritten(history, file) == File(GenerateSummary(history))

\* training_summary.json after generate_summary: untouched when the history
\* is empty (the early return), else the dumped summary
SummaryFileAfter(history, file) ==
    IF history = <<>> THEN file ELSE File(GenerateSummary(history))

\* A training step completes no episode, or MaxDelta episodes.
Deltas == {0, MaxDelta}

\* The result of a training step of the lifecycle model: the episode count alone.
StepResult(delta) == [env_runners |-> [episodes_this_iter |-> delta]]

\* The iteration argument of the save_checkpoint call in progress.
SaveIteration ==
    CASE saveKind = "final" -> FinalSaveIteration(start_iteration, training_iterations)
      [] saveKind = "interrupted" -> InterruptSaveIteration(iteration)
      [] OTHER -> iteration

\* The final checkpoint left untagged.
FinalMetricsUntagged(total) == [total_episodes |-> total]

\* final_metrics = {'total_episodes': total_episodes_completed, 'final': True}
FinalMetrics(total) == [total_episodes |-> total, final |-> TRUE]

\* "Resume with: ... checkpoint_{iteration:06d}" of the interrupted path
ResumeIdentifier(iter) == CheckpointName(iter)

\* The metrics argument of the save_checkpoint call in progress.
SaveMetricsArg ==
    CASE saveKind = "final" -> FinalMetrics(total_episodes_completed)
      [] saveKind = "interrupted" ->
            [total_episodes |-> total_episodes_completed, interrupted |-> TRUE]
      [] OTHER ->
            [total_episodes     |-> total_episodes_completed,
             episodes_this_iter |-> episodes_this_iter]

\* What a write cut short leaves on disk: nothing changed when it had not
\* begun, a partial file (a partial snapshot) when it had.
TornDisk(begun) ==
    LET n == CheckpointName(SaveIteration) IN
    /\ ckptDir' =
         IF begun /\ pc = "save_snap"
         THEN [ckptDir EXCEPT ![n].snap = "partial"]
         ELSE IF begun /\ pc = "save_meta"
         THEN [ckptDir EXCEPT ![n].meta = Corrupt]
         ELSE ckptDir
    /\ indexFile' = IF begun /\ pc = "save_index" THEN Corrupt ELSE indexFile
    /\ metricsFile' = IF begun /\ pc = "save_metrics" THEN Corrupt ELSE metricsFile
    /\ summaryFile' = summaryFile

TryPcs == {"loop", "train", "account", "extract", "cadence", "save_snap",
           "save_meta", "save_append", "save_index", "save_metrics", "summary"}

\* ----------------------------------------------------------------- actions
Ends(how, why) ==
    /\ pc' = "done"
    /\ outcome' = how
    /\ cause' = why

\* A process starts train(config, restore_checkpoint): CheckpointManager and
\* MetricsTracker are constructed and the iteration budget is computed.
Start(cfg, rc) ==
    /\ pc = "done"
    /\ runs < MaxRuns
    /\ runs' = runs + 1
    /\ prev' = IF outcome = "interrupted"
               THEN [outcome   |-> outcome,
                     iteration |-> iteration,
                     config    |-> config,
                     restore   |-> restore_checkpoint,
                     accounted |-> accounted,
                     clean     |-> /\ startIndexFile = Absent
                                   /\ startMetricsFile = Absent
                                   /\ restore_checkpoint = NoRestore,
                     total     |-> total_episodes_completed]
               ELSE NoPrev
    /\ config' = cfg
    /\ restore_checkpoint' = rc
    /\ startIndexFile' = indexFile
    /\ startMetricsFile' = metricsFile
    /\ metaFileAtLoad' = "none"
    /\ snapAtLoad' = "none"
    /\ metadata' = EmptyMeta
    /\ is_valid' = TRUE
    /\ issues' = <<>>
    /\ episode_offset' = 0
    /\ start_iteration' = 1
    /\ iteration' = 0
    /\ total_episodes_completed' = 0
    /\ episodes_this_iter' = 0
    /\ result' = EmptyMeta
    /\ saveKind' = "none"
    /\ stops' = 0
    /\ episode_count' = 0
    /\ episode_numbers' = <<>>
    /\ env_alive' = FALSE
    /\ trainLog' = <<>>
    /\ accounted' = <<>>
    /\ enteredTry' = FALSE
    /\ UNCHANGED diskVars
    /\ LET epi == EpisodesPerIteration(cfg.train_batch_size, cfg.max_steps) IN
       IF IndexLoadRaises(indexFile)
       THEN \* json.load of _load_checkpoint_index raises
            /\ checkpoint_history' = <<>>
            /\ metrics_history' = <<>>
            /\ episodes_per_iteration' = 0
            /\ training_iterations' = 0
            /\ Ends("failed", "index_unreadable")
       ELSE IF MetricsLoadRaises(metricsFile)
       THEN /\ checkpoint_history' = indexFile.data
            /\ metrics_history' = <<>>
            /\ episodes_per_iteration' = 0
            /\ training_iterations' = 0
            /\ Ends("failed", "metrics_unreadable")
       ELSE /\ checkpoint_history' = indexFile.data
            /\ metrics_history' = LoadExistingMetrics(metricsFile)
            /\ episodes_per_iteration' = epi
            /\ IF epi = 0
               THEN \* total_episodes // 0
                    /\ training_iterations' = 0
                    /\ Ends("failed", "zero_division")
               ELSE /\ training_iterations' =
                         TrainingIterations(cfg.total_episodes, epi)
                    /\ pc' = IF rc = NoRestore THEN "create" ELSE "restore"
                    /\ outcome' = "running"
                    /\ cause' = "none"

\* if restore_checkpoint: metadata, validation, episode offset, start iteration
RestoreCheckpoint ==
    /\ pc = "restore"
    /\ LET d == ckptDir[restore_checkpoint]
           m == GetCheckpointMetadata(d)
           v == ValidateCheckpointConfig(m, config)
       IN
       /\ metaFileAtLoad' = d.meta.st
       /\ snapAtLoad' = d.snap
       /\ IF d.meta.st = "corrupt"
          THEN \* json.load of get_checkpoint_metadata raises
               /\ Ends("failed", "metadata_unreadable")
               /\ UNCHANGED <<metadata, is_valid, issues, episode_offset,
                              start_iteration>>
          ELSE /\ metadata' = m
               /\ is_valid' = v.ok
               /\ issues' = v.issues
               /\ IF RefusesResume(v.ok)
                  THEN /\ Ends("exit1", "config_incompatible")
                       /\ UNCHANGED <<episode_offset, start_iteration>>
                  ELSE /\ episode_offset' =
                            ResolveEpisodeOffset(m, restore_checkpoint,
                                                 episodes_per_iteration)
                       /\ start_iteration' =
                            ResolveStartIteration(restore_checkpoint)
                       /\ pc' = "create"
                       /\ UNCHANGED <<outcome, cause>>
    /\ UNCHANGED <<envVars, diskVars, config, restore_checkpoint, episodes_per_iteration,
                   training_iterations, loopVars, memVars, saveKind, stops,
                   trainLog, accounted, enteredTry, runs, startIndexFile,
                   startMetricsFile, prev>>

\* The wrapper counting from zero whatever offset it is given.
EnvCountFromZero(offset) == 0

\* RLlibMinecraftEnv.__init__: self.episode_count = config.get('episode_offset', 0),
\* the env_config['episode_offset'] of create_ppo_trainer
EnvInitialCount(offset) == offset

\* create_ppo_trainer: the trainer is built and, on resume, restored from the
\* snapshot.  What the learning algorithm makes of a partial snapshot is its
\* own affair: it restores or it raises.
CreateTrainer ==
    /\ pc = "create"
    /\ \/ /\ restore_checkpoint # NoRestore => ckptDir[restore_checkpoint].snap # "none"
          /\ pc' = "pretry"
          /\ UNCHANGED <<outcome, cause>>
       \/ /\ restore_checkpoint # NoRestore
          /\ ckptDir[restore_checkpoint].snap # "full"
          /\ Ends("failed", "restore_failed")
    /\ episode_count' = EnvInitialCount(episode_offset)
    /\ episode_numbers' = <<>>
    /\ env_alive' = TRUE
    /\ UNCHANGED <<diskVars, setupVars, loopVars, memVars, saveKind, stops,
                   trainLog, accounted, enteredTry, histVars>>

\* The counter begun at zero whatever the offset is.
InitialCounterZero(offset) == 0

\* total_episodes_completed = episode_offset
InitialCounter(offset) == offset

\* total_episodes_completed = episode_offset, the banner, then try:
PreTry ==
    /\ pc = "pretry"
    /\ total_episodes_completed' = InitialCounter(episode_offset)
    /\ enteredTry' = TRUE
    /\ pc' = "loop"
    /\ UNCHANGED <<envVars, diskVars, setupVars, iteration, episodes_this_iter, result, memVars,
                   saveKind, outcome, cause, stops, trainLog, accounted, histVars>>

\* The range begun at 1 whatever start_iteration is.
RangeNextFromOne(iter, start) == IF iter = 0 THEN 1 ELSE iter + 1

\* The next value of range(start_iteration, ...): its first value while the
\* loop variable is unbound (0), the successor afterwards
RangeNext(iter, start) == IF iter = 0 THEN start ELSE iter + 1

\* for iteration in range(start_iteration, training_iterations + 1)
LoopNext ==
    /\ pc = "loop"
    /\ LET nxt == RangeNext(iteration, start_iteration) IN
       IF nxt <= training_iterations
       THEN /\ iteration' = nxt
            /\ pc' = "train"
            /\ UNCHANGED saveKind
       ELSE \* Training complete: the final checkpoint
            /\ saveKind' = "final"
            /\ pc' = "save_snap"
            /\ UNCHANGED iteration
    /\ UNCHANGED <<envVars, diskVars, setupVars, total_episodes_completed,
                   episodes_this_iter, result, memVars, outcome, cause, stops, trainLog,
                   accounted, enteredTry, histVars>>

\* result = trainer.train() returns
TrainStep(delta) ==
    /\ pc = "train"
    /\ result' = StepResult(delta)
    /\ episodes_this_iter' = EpisodesThisIter(StepResult(delta))
    /\ trainLog' = Append(trainLog, iteration)
    /\ pc' = "account"
    /\ UNCHANGED <<envVars, diskVars, setupVars, iteration, total_episodes_completed,
                   memVars, saveKind, outcome, cause, stops, accounted,
                   enteredTry, histVars>>

\* trainer.train() raises: except Exception prints and re-raises
TrainRaises ==
    /\ pc = "train"
    /\ trainLog' = Append(trainLog, iteration)
    /\ pc' = "finally"
    /\ outcome' = "failed"
    /\ cause' = "train_error"
    /\ UNCHANGED <<envVars, diskVars, setupVars, loopVars, memVars, saveKind, stops,
                   accounted, enteredTry, histVars>>

\* total_episodes_completed += episodes_this_iter
Account ==
    /\ pc = "account"
    /\ total_episodes_completed' =
         AdvanceCounter(total_episodes_completed, episodes_this_iter)
    /\ accounted' = accounted @@ (iteration :> episodes_this_iter)
    /\ pc' = "extract"
    /\ UNCHANGED <<envVars, diskVars, setupVars, iteration, episodes_this_iter, result, memVars,
                   saveKind, outcome, cause, stops, trainLog, enteredTry, histVars>>

\* The new record written over the last record of the history.
RecordReplacesLast(history, metrics) ==
    IF history = <<>> THEN <<metrics>>
    ELSE [history EXCEPT ![Len(history)] = metrics]

\* self.metrics_history.append(metrics)
RecordAppended(history, metrics) == Append(history, metrics)

\* metrics = metrics_tracker.extract_metrics(...), log_progress
Extract ==
    /\ pc = "extract"
    /\ metrics_history' =
         RecordAppended(metrics_history,
                ExtractMetrics(result, iteration, episodes_this_iter,
                              total_episodes_completed, config.max_steps))
    /\ pc' = "cadence"
    /\ UNCHANGED <<envVars, diskVars, setupVars, loopVars, checkpoint_history, saveKind,
                   outcome, cause, stops, trainLog, accounted, enteredTry, histVars>>

\* The loop waiting at an iteration off the cadence.
CadenceTestWaits(due) == IF due THEN "save_snap" ELSE "cadence"

\* Where the loop goes on after the cadence test: into save_checkpoint when a
\* checkpoint is due, else to the next iteration
AfterCadenceTest(due) == IF due THEN "save_snap" ELSE "loop"

\* if iteration % checkpoint_freq == 0: the cadence save begins
Cadence ==
    /\ pc = "cadence"
    /\ saveKind' = (IF IsCadence(iteration, config.checkpoint_freq)
                    THEN "cadence" ELSE saveKind)
    /\ pc' = AfterCadenceTest(IsCadence(iteration, config.checkpoint_freq))
    /\ UNCHANGED <<envVars, diskVars, setupVars, loopVars, memVars, outcome, cause, stops,
                   trainLog, accounted, enteredTry, histVars>>

\* save_checkpoint: saved_path = trainer.save(checkpoint_path)
SaveSnapshot ==
    /\ pc = "save_snap"
    /\ ckptDir' = [ckptDir EXCEPT ![CheckpointName(SaveIteration)].snap = "full"]
    /\ pc' = "save_meta"
    /\ UNCHANGED <<envVars, indexFile, metricsFile, summaryFile, setupVars, loopVars,
                   memVars, saveKind, outcome, cause, stops, trainLog, accounted,
                   enteredTry, histVars>>

\* save_checkpoint: metadata.json is written
SaveMetadata ==
    /\ pc = "save_meta"
    /\ ckptDir' = [ckptDir EXCEPT ![CheckpointName(SaveIteration)].meta =
                      File(BuildMetadata(SaveIteration, config, SaveMetricsArg))]
    /\ pc' = "save_append"
    /\ UNCHANGED <<envVars, indexFile, metricsFile, summaryFile, setupVars, loopVars,
                   memVars, saveKind, outcome, cause, stops, trainLog, accounted,
                   enteredTry, histVars>>

\* The new record put in front of the index.
IndexPrepended(history, record) == <<record>> \o history

\* self.checkpoint_history.append({...})
IndexAppended(history, record) == Append(history, record)

\* save_checkpoint: self.checkpoint_history.append(...)
SaveAppend ==
    /\ pc = "save_append"
    /\ checkpoint_history' =
         IndexAppended(checkpoint_history,
                       IndexRecord(SaveIteration, SaveMetricsArg))
    /\ pc' = "save_index"
    /\ UNCHANGED <<envVars, diskVars, setupVars, loopVars, metrics_history, saveKind,
                   outcome, cause, stops, trainLog, accounted, enteredTry, histVars>>

\* save_checkpoint: self._save_checkpoint_index()
SaveIndex ==
    /\ pc = "save_index"
    /\ indexFile' = File(checkpoint_history)
    /\ pc' = "save_metrics"
    /\ UNCHANGED <<envVars, ckptDir, metricsFile, summaryFile, setupVars, loopVars,
                   memVars, saveKind, outcome, cause, stops, trainLog, accounted,
                   enteredTry, histVars>>

\* The metrics records the running process loaded from the history file.
LoadedMetricsLen ==
    IF startMetricsFile.st = "ok" THEN Len(startMetricsFile.data) ELSE 0

\* Every save followed by the next iteration of the loop.
AfterPersistLoops(kind) == "loop"

\* Where train() goes on after save_metrics: the loop after a cadence save,
\* print_summary after the final and the interrupted save
AfterPersist(kind) == IF kind = "cadence" THEN "loop" ELSE "summary"

\* metrics_tracker.save_metrics(), generate_plots, and after a cadence save
\* gc.collect() and the next iteration
SaveMetrics ==
    /\ pc = "save_metrics"
    /\ metricsFile' = File(PersistedHistory(metrics_history, LoadedMetricsLen))
    /\ saveKind' = (IF saveKind = "cadence" THEN "none" ELSE saveKind)
    /\ pc' = AfterPersist(saveKind)
    /\ UNCHANGED <<envVars, indexFile, ckptDir, summaryFile, setupVars, loopVars, memVars,
                   outcome, cause, stops, trainLog, accounted, enteredTry, histVars>>

\* metrics_tracker.print_summary() of the final and the interrupted path
Summary ==
    /\ pc = "summary"
    /\ summaryFile' = SummaryFileAfter(metrics_history, summaryFile)
    /\ outcome' = IF saveKind = "final" THEN "completed" ELSE "interrupted"
    /\ pc' = "finally"
    /\ UNCHANGED <<envVars, indexFile, ckptDir, metricsFile, setupVars, loopVars, memVars,
                   saveKind, cause, stops, trainLog, accounted, enteredTry, histVars>>

\* The trainer left running.
StopSkipped(n) == n

\* trainer.stop() called once more
StopTrainer(n) == n + 1

\* finally: trainer.stop(); ray.shutdown()
Finally ==
    /\ pc = "finally"
    /\ stops' = StopTrainer(stops)
    /\ env_alive' = FALSE
    /\ pc' = "done"
    /\ UNCHANGED <<episode_count, episode_numbers, diskVars, setupVars, loopVars, memVars, saveKind, outcome,
                   cause, trainLog, accounted, enteredTry, histVars>>

\* KeyboardInterrupt inside the try block: except KeyboardInterrupt saves the
\* interrupted checkpoint at the loop variable, which is unbound (NameError)
\* when no iteration has begun.
KeyboardInterrupt(begun) ==
    /\ pc \in TryPcs
    /\ saveKind # "interrupted"
    /\ TornDisk(begun)
    /\ IF iteration = 0
       THEN /\ pc' = "finally"
            /\ outcome' = "failed"
            /\ cause' = "unbound_iteration"
            /\ UNCHANGED saveKind
       ELSE /\ saveKind' = "interrupted"
            /\ pc' = "save_snap"
            /\ UNCHANGED <<outcome, cause>>
    /\ UNCHANGED <<envVars, setupVars, loopVars, memVars, stops, trainLog, accounted,
                   enteredTry, histVars>>

\* A failed write reported by the interrupted path as a saved checkpoint.
WriteFailureSwallowed(kind) ==
    IF kind = "interrupted" THEN "interrupted" ELSE "failed"

\* How train() ends when a write of a save raises.  Inside the try block
\* except Exception prints and re-raises; inside the except KeyboardInterrupt
\* handler no clause catches the exception.  Either way it reaches the caller
\* through finally.
WriteFailureOutcome(kind) == "failed"

\* open(file, 'w') or json.dump raises in save_checkpoint (metadata.json,
\* checkpoint_index.json) or in save_metrics (metrics_history.json).
WriteFails(begun) ==
    /\ pc \in {"save_meta", "save_index", "save_metrics"}
    /\ TornDisk(begun)
    /\ pc' = "finally"
    /\ outcome' = WriteFailureOutcome(saveKind)
    /\ cause' = "write_error"
    /\ UNCHANGED <<envVars, setupVars, loopVars, memVars, saveKind, stops, trainLog,
                   accounted, enteredTry, histVars>>

\* KeyboardInterrupt inside the handler itself: it propagates through finally
InterruptInHandler(begun) ==
    /\ pc \in TryPcs
    /\ saveKind = "interrupted"
    /\ TornDisk(begun)
    /\ pc' = "finally"
    /\ outcome' = "failed"
    /\ cause' = "keyboard_interrupt"
    /\ UNCHANGED <<envVars, setupVars, loopVars, memVars, saveKind, stops, trainLog,
                   accounted, enteredTry, histVars>>

\* KeyboardInterrupt before the try block: nothing catches it
InterruptOutsideTry ==
    /\ pc \in {"restore", "create", "pretry"}
    /\ Ends("failed", "keyboard_interrupt")
    /\ UNCHANGED <<envVars, diskVars, setupVars, loopVars, memVars, saveKind, stops,
                   trainLog, accounted, enteredTry, histVars>>

\* The memory of a killed process is gone.
WipeMemory ==
    /\ config' = DefaultConfig
    /\ restore_checkpoint' = NoRestore
    /\ checkpoint_history' = <<>>
    /\ metrics_history' = <<>>
    /\ metadata' = EmptyMeta
    /\ is_valid' = TRUE
    /\ issues' = <<>>
    /\ episodes_per_iteration' = 0
    /\ training_iterations' = 0
    /\ episode_offset' = 0
    /\ start_iteration' = 1
    /\ iteration' = 0
    /\ total_episodes_completed' = 0
    /\ episodes_this_iter' = 0
    /\ result' = EmptyMeta
    /\ saveKind' = "none"
    /\ stops' = 0
    /\ episode_count' = 0
    /\ episode_numbers' = <<>>
    /\ env_alive' = FALSE
    /\ trainLog' = <<>>
    /\ accounted' = <<>>
    /\ enteredTry' = FALSE
    /\ startIndexFile' = Absent
    /\ startMetricsFile' = Absent
    /\ metaFileAtLoad' = "none"
    /\ snapAtLoad' = "none"

\* The process is killed: the disk stays as it is.
Crash(begun) ==
    /\ pc # "done"
    /\ TornDisk(begun)
    /\ WipeMemory
    /\ Ends("crashed", "killed")
    /\ UNCHANGED <<runs, prev>>

\* The first process on the directory has observation size 1; a later one
\* has either size.
StartConfigs == IF runs = 0 THEN {c \in Configs : c.observation_size = 1}
                ELSE Configs

Next ==
    \/ \E cfg \in StartConfigs :
         \E rc \in {NoRestore} \cup {n \in Names : ckptDir[n].snap # "none"} :
           Start(cfg, rc)
    \/ RestoreCheckpoint
    \/ CreateTrainer
    \/ PreTry
    \/ LoopNext
    \/ \E delta \in Deltas : TrainStep(delta)
    \/ TrainRaises
    \/ Account
    \/ Extract
    \/ Cadence
    \/ SaveSnapshot
    \/ SaveMetadata
    \/ SaveAppend
    \/ SaveIndex
    \/ SaveMetrics
    \/ Summary
    \/ Finally
    \/ \E begun \in BOOLEAN : KeyboardInterrupt(begun)
    \/ \E begun \in BOOLEAN : WriteFails(begun)
    \/ \E begun \in BOOLEAN : InterruptInHandler(begun)
    \/ InterruptOutsideTry
    \/ \E begun \in BOOLEAN : Crash(begun)

Spec == Init /\ [][Next]_vars

\* ------------------------------------------------------------- properties
\* The records the running process has appended to checkpoint_history: those
\* after the ones it loaded from the index file.
LoadedLen == IF startIndexFile.st = "ok" THEN Len(startIndexFile.data) ELSE 0

Appended == SubSeq(checkpoint_history, LoadedLen + 1, Len(checkpoint_history))

\* C1 as stated: the iteration values of the records of the checkpoint index
\* are strictly increasing in insertion order.
C1_IndexStrictlyIncreasing ==
    \A i, j \in DOMAIN indexFile.data :
        i < j => indexFile.data[i].iteration < indexFile.data[j].iteration

\* C1 amended: among the records one call of train() appends, the iteration
\* values never decrease in insertion order.
C1_AppendedNonDecreasing ==
    \A i, j \in DOMAIN Appended :
        i < j => Appended[i].iteration <= Appended[j].iteration

\* One call has saved at a lower iteration, then twice at the same iteration
\* (the last cadence save and the final save), and the index file holds it.
C1_Witness ==
    /\ Len(Appended) >= 3
    /\ Appended[1].iteration < Appended[2].iteration
    /\ Appended[2].iteration = Appended[3].iteration
    /\ indexFile = File(checkpoint_history)

\* C2 as stated: total_episodes never decreases between consecutive records of
\* the checkpoint index.
C2_IndexEpisodesNonDecreasing ==
    \A i \in DOMAIN indexFile.data :
        i > 1 => indexFile.data[i - 1].total_episodes
                     <= indexFile.data[i].total_episodes

\* C2 amended: among the records one call of train() appends, total_episodes
\* never decreases from one record to the next.
C2_AppendedEpisodesNonDecreasing ==
    \A i \in DOMAIN Appended :
        i > 1 => Appended[i - 1].total_episodes <= Appended[i].total_episodes

\* A resumed call has appended two records, the first of them above the count
\* of the last record it loaded.
C2_Witness ==
    /\ restore_checkpoint # NoRestore
    /\ LoadedLen >= 1
    /\ Len(Appended) >= 2
    /\ Appended[1].total_episodes > checkpoint_history[LoadedLen].total_episodes
    /\ indexFile = File(checkpoint_history)

\* The running process resumes from the checkpoint the previous process wrote
\* when it was interrupted.
ResumesInterrupted ==
    /\ prev.outcome = "interrupted"
    /\ restore_checkpoint = CheckpointName(prev.iteration)

\* The restore block of train() has run and has not refused the checkpoint.
Restored ==
    /\ restore_checkpoint # NoRestore
    /\ metaFileAtLoad # "none"
    /\ cause \notin {"metadata_unreadable", "config_incompatible"}

\* C3: a run interrupted and then resumed from the checkpoint it wrote ends
\* with every iteration 1..training_iterations accounted exactly once over the
\* two processes and with the counter equal to the sum of their deltas, as a
\* run never interrupted does.
C3_ResumeEqualsUninterrupted ==
    (/\ pc = "done"
     /\ outcome = "completed"
     /\ ResumesInterrupted
     /\ prev.clean
     /\ config = prev.config)
    => /\ DOMAIN prev.accounted \cap DOMAIN accounted = {}
       /\ DOMAIN prev.accounted \cup DOMAIN accounted = 1..training_iterations
       /\ total_episodes_completed = SumOver(prev.accounted) + SumOver(accounted)

\* C4: the interrupted path leaves, as the last record of the index, a record
\* at the loop variable's iteration, its checkpoint carrying interrupted=true;
\* and a process resumed from that checkpoint starts at the next iteration.
C4_InterruptedAtCurrentIteration ==
    /\ outcome = "interrupted" =>
         LET last == checkpoint_history[Len(checkpoint_history)]
             dir == ckptDir[CheckpointName(iteration)]
         IN  /\ Len(Appended) >= 1
             /\ last.iteration = iteration
             /\ last.path = CheckpointName(iteration)
             /\ indexFile = File(checkpoint_history)
             /\ dir.snap = "full"
             /\ dir.meta.st = "ok"
             /\ dir.meta.data["iteration"] = iteration
             /\ Get(dir.meta.data, "interrupted", FALSE)
    /\ (ResumesInterrupted /\ Restored) => start_iteration = prev.iteration + 1

\* A process interrupted at iteration 1, off the cadence of 2, was resumed from
\* checkpoint_000001 and is training iteration 2.
C4_Witness ==
    /\ ResumesInterrupted
    /\ Restored
    /\ prev.iteration = 1
    /\ prev.config.checkpoint_freq = 2
    /\ pc = "train"
    /\ iteration = 2

\* C7: a resume from a checkpoint without metadata.json gets empty metadata
\* and a valid result without issues, and ends before the loop only by a
\* cancellation or by the learning algorithm refusing a partial snapshot.
C7_MetadataLessResume ==
    metaFileAtLoad = "absent" =>
        /\ metadata = EmptyMeta
        /\ is_valid
        /\ issues = <<>>
        /\ cause \notin {"config_incompatible", "metadata_unreadable"}
        /\ (pc = "done" /\ ~enteredTry) =>
              \/ cause = "keyboard_interrupt"
              \/ cause = "restore_failed" /\ snapAtLoad # "full"

\* A process resumed from a complete snapshot without metadata is in the loop.
C7_Witness ==
    /\ metaFileAtLoad = "absent"
    /\ snapAtLoad = "full"
    /\ pc = "train"
    /\ start_iteration = 2

\* C8: after a hard mismatch train() has exited with status 1 and has run no
\* training step, appended no record and written neither file.
C8_HardMismatchExits ==
    ~is_valid =>
        /\ pc = "done"
        /\ outcome = "exit1"
        /\ Len(issues) > 0
        /\ trainLog = <<>>
        /\ stops = 0
        /\ checkpoint_history = startIndexFile.data
        /\ indexFile = startIndexFile
        /\ metricsFile = startMetricsFile

\* A resume under another observation size was refused, with an index on disk.
C8_Witness ==
    /\ ~is_valid
    /\ outcome = "exit1"
    /\ issues = <<"observation_size">>
    /\ Len(indexFile.data) >= 1
    /\ metricsFile.st = "ok"

\* C9: after a crash every record of the index file refers to a checkpoint
\* whose snapshot and metadata are completely written.
C9_CrashLeavesIndexedCheckpointsComplete ==
    (outcome = "crashed" /\ indexFile.st = "ok") =>
        \A i \in DOMAIN indexFile.data :
            LET dir == ckptDir[indexFile.data[i].path]
            IN  dir.snap = "full" /\ dir.meta.st = "ok"

\* ------------------------------------------------- validation over inputs
\* The largest observation size, max_steps and the span of batch sizes of the
\* configs and metadata documents the validation is applied to.
MaxDim == 2

MetaKeys == {"observation_size", "action_size", "max_steps", "train_batch_size"}

\* Metadata documents recording every key of MetaKeys.
FullMetas ==
    { [observation_size |-> o, action_size |-> a, max_steps |-> m,
       train_batch_size |-> b] :
        o \in 1..MaxDim, a \in {ActionSize, ActionSize + 1},
        m \in 1..MaxDim, b \in MaxDim..(MaxDim + 1) }

Restrict(f, keys) == [k \in keys |-> f[k]]

\* Metadata documents recording any part of MetaKeys, the empty one included.
MetaInputs == { Restrict(f, keys) : f \in FullMetas, keys \in SUBSET MetaKeys }

ValidateConfig(obs, steps, batch) ==
    [observation_size |-> obs, max_steps |-> steps, train_batch_size |-> batch,
     total_episodes |-> 1, checkpoint_freq |-> 1]

ValidateConfigs ==
    { ValidateConfig(o, m, b) :
        o \in 1..MaxDim, m \in 1..MaxDim, b \in MaxDim..(MaxDim + 1) }

\* The checkpoint directory holds checkpoint_000001 with a complete snapshot
\* and one of the metadata documents.
InitValidate ==
    /\ \E m \in MetaInputs :
         ckptDir = [n \in Names |->
                      IF n = CheckpointName(1)
                      THEN [snap |-> "full", meta |-> File(m)]
                      ELSE [snap |-> "none", meta |-> Absent]]
    /\ indexFile = Absent
    /\ metricsFile = Absent
    /\ summaryFile = Absent
    /\ NoProcess
    /\ pc = "done"
    /\ outcome = "none"
    /\ cause = "none"
    /\ runs = 0
    /\ prev = NoPrev

StartValidate == \E cfg \in ValidateConfigs : Start(cfg, CheckpointName(1))

NextValidate ==
    \/ StartValidate
    \/ RestoreCheckpoint

SpecValidate == InitValidate /\ [][NextValidate]_vars

\* The metadata the process loaded records a hard-checked dimensionality
\* different from the live config's.
HardMismatch ==
    \/ /\ "observation_size" \in DOMAIN metadata
       /\ metadata["observation_size"] # config.observation_size
    \/ /\ "action_size" \in DOMAIN metadata
       /\ metadata["action_size"] # ActionSize

\* C5: metadata recording an observation or action dimensionality different
\* from the live config's is found invalid with at least one issue, whatever
\* its other fields, and the resume is refused.
C5_HardMismatchFailsValidation ==
    (metaFileAtLoad = "ok" /\ HardMismatch) =>
        /\ ~is_valid
        /\ Len(issues) >= 1
        /\ ~ValidateCheckpointConfig(metadata, config).ok
        /\ outcome = "exit1"

\* Only the action size differs: every other recorded field matches.
C5_Witness ==
    /\ metaFileAtLoad = "ok"
    /\ DOMAIN metadata = MetaKeys
    /\ metadata["action_size"] # ActionSize
    /\ metadata["observation_size"] = config.observation_size
    /\ metadata["max_steps"] = config.max_steps
    /\ metadata["train_batch_size"] = config.train_batch_size
    /\ issues = <<"action_size">>

\* The metadata the process loaded records both hard-checked dimensionalities,
\* equal to the live config's.
HardMatch ==
    /\ "observation_size" \in DOMAIN metadata
    /\ metadata["observation_size"] = config.observation_size
    /\ "action_size" \in DOMAIN metadata
    /\ metadata["action_size"] = ActionSize

\* C6: metadata matching the live config in observation and action
\* dimensionality is valid with an empty issue list, whatever max_steps and
\* train_batch_size it records; the differences are warnings and the resume
\* goes on to create the trainer.
C6_SoftMismatchPassesValidation ==
    (metaFileAtLoad = "ok" /\ HardMatch) =>
        /\ is_valid
        /\ issues = <<>>
        /\ ValidateCheckpointConfig(metadata, config).ok
        /\ pc = "create"

\* Both max_steps and train_batch_size differ and are warned about.
C6_Witness ==
    /\ metaFileAtLoad = "ok"
    /\ HardMatch
    /\ ValidateCheckpointConfig(metadata, config).warnings
         = <<"max_steps", "train_batch_size">>
    /\ is_valid
    /\ pc = "create"

\* ----------------------------------------------------- budget over inputs
\* The largest train_batch_size, max_steps and total_episodes enumerated,
\* beside the figures 4000, 200, 1000 and 1010.
MaxBudgetIn == 3

BudgetConfig(batch, steps, total) ==
    [observation_size |-> 1, max_steps |-> steps, train_batch_size |-> batch,
     total_episodes |-> total, checkpoint_freq |-> 1]

BudgetConfigs ==
    { BudgetConfig(b, m, t) :
        b \in 1..MaxBudgetIn \cup {4000},
        m \in 1..MaxBudgetIn \cup {200},
        t \in 1..MaxBudgetIn \cup {1000, 1010} }

StartBudget == \E cfg \in BudgetConfigs : Start(cfg, NoRestore)

SpecBudget == Init /\ [][StartBudget]_vars

\* The quotient rounded down and rounded up, by their defining inequalities.
FloorOf(a, b) == CHOOSE q \in 0..a : q * b <= a /\ a < (q + 1) * b

CeilOf(a, b) == CHOOSE q \in 0..a : (q - 1) * b < a /\ a <= q * b

\* C10 as stated: for all positive train_batch_size, max_steps and
\* total_episodes the process has computed episodes_per_iteration as the
\* floor and training_iterations as the ceiling.
C10_BudgetForAllPositive ==
    runs >= 1 =>
        /\ cause # "zero_division"
        /\ episodes_per_iteration
             = FloorOf(config.train_batch_size, config.max_steps)
        /\ training_iterations
             = CeilOf(config.total_episodes, episodes_per_iteration)

\* C10: when train_batch_size >= max_steps the process has computed
\* episodes_per_iteration as the floor of train_batch_size / max_steps and
\* training_iterations as the ceiling of total_episodes /
\* episodes_per_iteration; otherwise episodes_per_iteration is 0 and train()
\* has raised on the division, before a trainer exists.
C10_BudgetWhenBatchCoversEpisode ==
    runs >= 1 =>
        IF config.train_batch_size >= config.max_steps
        THEN /\ cause # "zero_division"
             /\ episodes_per_iteration
                  = FloorOf(config.train_batch_size, config.max_steps)
             /\ training_iterations
                  = CeilOf(config.total_episodes, episodes_per_iteration)
        ELSE /\ cause = "zero_division"
             /\ outcome = "failed"
             /\ pc = "done"

\* 4000 / 200 gives 20 episodes per iteration and 1010 episodes 51 iterations.
C10_Witness ==
    /\ runs >= 1
    /\ config.train_batch_size = 4000
    /\ config.max_steps = 200
    /\ config.total_episodes = 1010
    /\ episodes_per_iteration = 20
    /\ training_iterations = 51
    /\ pc = "create"

\* ----------------------------------------------------------- episode offset
\* C11: after the restore block the episode offset is the metadata's
\* total_episodes when that is recorded and not 0; when it is 0 or absent and
\* the checkpoint is named for iteration k, the offset is
\* k * episodes_per_iteration.  The counter starts from the offset.
C11_EpisodeOffsetResolved ==
    Restored =>
        LET recorded == Get(metadata, "total_episodes", 0) IN
        /\ recorded # 0 => episode_offset = recorded
        /\ recorded = 0 =>
             \A k \in 0..MaxIterations :
                 restore_checkpoint = CheckpointName(k)
                     => episode_offset = k * episodes_per_iteration
        /\ pc = "loop" /\ iteration = 0
             => total_episodes_completed = episode_offset

\* A resume from checkpoint_000002, whose metadata records 0 episodes, has
\* estimated the offset.
C11_Witness ==
    /\ Restored
    /\ "total_episodes" \in DOMAIN metadata
    /\ metadata["total_episodes"] = 0
    /\ restore_checkpoint = CheckpointName(2)
    /\ episode_offset = 2 * episodes_per_iteration
    /\ episode_offset > 0
    /\ pc = "loop"

\* --------------------------------------------------------- latest checkpoint
\* The highest iteration among the records of a non-empty history.
HighestIteration(history) ==
    CHOOSE n \in {history[i].iteration : i \in DOMAIN history} :
        \A i \in DOMAIN history : history[i].iteration <= n

\* C12 as stated: get_latest_checkpoint returns the path of the record with
\* the highest iteration of the index, and none on an empty index.
C12_LatestIsHighestIteration ==
    IF checkpoint_history = <<>>
    THEN GetLatestCheckpoint(checkpoint_history) = NoRestore
    ELSE \E i \in DOMAIN checkpoint_history :
            /\ checkpoint_history[i].iteration = HighestIteration(checkpoint_history)
            /\ GetLatestCheckpoint(checkpoint_history) = checkpoint_history[i].path

\* C12: get_latest_checkpoint returns the path of the record appended last,
\* and none on an empty index; that record has the highest iteration when
\* every record of the history was appended by the running call of train().
C12_LatestIsLastAppended ==
    IF checkpoint_history = <<>>
    THEN GetLatestCheckpoint(checkpoint_history) = NoRestore
    ELSE /\ GetLatestCheckpoint(checkpoint_history)
              = checkpoint_history[Len(checkpoint_history)].path
         /\ GetLatestCheckpoint(checkpoint_history) # NoRestore
         /\ LoadedLen = 0 =>
              GetLatestCheckpoint(checkpoint_history)
                  = CheckpointName(HighestIteration(checkpoint_history))

\* An index reloaded from disk and then appended to: the latest checkpoint is
\* that of the new record, which differs from the first record of the index.
C12_Witness ==
    /\ LoadedLen >= 1
    /\ Len(Appended) >= 1
    /\ indexFile = File(checkpoint_history)
    /\ GetLatestCheckpoint(checkpoint_history) = Appended[Len(Appended)].path
    /\ GetLatestCheckpoint(checkpoint_history) # checkpoint_history[1].path

\* ---------------------------------------------------------- the final save
\* The final checkpoint is on disk and in the index, tagged final, and the
\* metrics history is persisted.
FinalCheckpointSaved ==
    LET last == checkpoint_history[Len(checkpoint_history)]
        dir == ckptDir[CheckpointName(training_iterations)]
    IN  /\ Len(Appended) >= 1
        /\ last.iteration = training_iterations
        /\ last.path = CheckpointName(training_iterations)
        /\ indexFile = File(checkpoint_history)
        /\ dir.snap = "full"
        /\ dir.meta.st = "ok"
        /\ dir.meta.data["iteration"] = training_iterations
        /\ Get(dir.meta.data, "final", FALSE)
        /\ metricsFile = File(JsonDump(metrics_history))

\* C13 as stated: a call of train() whose loop exited normally has saved a
\* final checkpoint tagged final=true, persisted the metrics history and
\* produced the summary.
C13_FinalSaveAndSummary ==
    outcome = "completed" =>
        /\ FinalCheckpointSaved
        /\ metrics_history # <<>>
        /\ summaryFile = File(GenerateSummary(metrics_history))

\* C13: a call of train() whose loop exited normally has saved a final
\* checkpoint tagged final=true and persisted the metrics history, on or off
\* the cadence; it has produced the summary when the metrics history is not
\* empty.  The history is empty only when the call trained no iteration and
\* loaded no record.
C13_FinalSaveAndSummaryOfHistory ==
    outcome = "completed" =>
        /\ FinalCheckpointSaved
        /\ metrics_history # <<>>
             => summaryFile = File(GenerateSummary(metrics_history))
        /\ metrics_history = <<>> => trainLog = <<>> /\ LoadedMetricsLen = 0

\* The loop ended at an iteration off the cadence and the final checkpoint
\* and the summary were written.
C13_Witness ==
    /\ outcome = "completed"
    /\ pc = "done"
    /\ training_iterations % config.checkpoint_freq # 0
    /\ Len(trainLog) >= 1
    /\ Len(Appended) = 1
    /\ summaryFile = File(GenerateSummary(metrics_history))

\* ------------------------------------------------------------ cancellation
\* C14: a cancellation arriving at any point after the trainer was created
\* ends train() without raising, with an interrupted checkpoint saved, the
\* metrics persisted and a resume identifier that is the path of the record
\* just appended.
C14_CancellationSavesAndReturns ==
    /\ (enteredTry /\ pc \in {"finally", "done"}) => cause # "unbound_iteration"
    /\ outcome = "interrupted" =>
         LET last == checkpoint_history[Len(checkpoint_history)] IN
         /\ cause = "none"
         /\ Len(Appended) >= 1
         /\ Get(ckptDir[last.path].meta.data, "interrupted", FALSE)
         /\ ResumeIdentifier(iteration) = last.path
         /\ metricsFile = File(JsonDump(metrics_history))

\* C15: while the interrupted path runs, every iteration whose training step
\* has returned has its delta in the counter and its metrics record in the
\* history.
C15_NoPartiallyAccountedIteration ==
    saveKind = "interrupted" =>
        \A i \in DOMAIN trainLog :
            /\ trainLog[i] \in DOMAIN accounted
            /\ \E j \in (LoadedMetricsLen + 1)..Len(metrics_history) :
                  metrics_history[j].iteration = trainLog[i]

\* ------------------------------------------------------- iteration failure
\* The metrics records the running process has appended to its history.
AppendedMetrics ==
    SubSeq(metrics_history, LoadedMetricsLen + 1, Len(metrics_history))

\* C16: when trainer.train() raised at the iteration of the loop variable,
\* train() fails (the exception is re-raised), the trainer is stopped once
\* before train() is left, and the call has appended no checkpoint record and
\* no metrics record for that iteration, in memory or in the files.
C16_IterationFailureReraised ==
    cause = "train_error" =>
        /\ outcome = "failed"
        /\ pc \in {"finally", "done"}
        /\ pc = "finally" => stops = 0
        /\ pc = "done" => stops = 1
        /\ \A j \in DOMAIN Appended : Appended[j].iteration # iteration
        /\ \A j \in DOMAIN AppendedMetrics : AppendedMetrics[j].iteration # iteration
        /\ indexFile = IF Appended = <<>> THEN startIndexFile
                       ELSE File(checkpoint_history)
        /\ \/ metricsFile = startMetricsFile
           \/ /\ metricsFile.st = "ok"
              /\ \A j \in (LoadedMetricsLen + 1)..Len(metricsFile.data) :
                    JsonLoad(metricsFile.data)[j].iteration # iteration

\* The training step of iteration 2 raised after iteration 1 was trained and
\* saved; train() has been left with the trainer stopped.
C16_Witness ==
    /\ cause = "train_error"
    /\ pc = "done"
    /\ stops = 1
    /\ iteration = 2
    /\ Len(Appended) = 1
    /\ Appended[1].iteration = 1
    /\ Len(AppendedMetrics) = 1

\* ------------------------------------------------------- unreadable files
\* C17: a process that finds a checkpoint index that does not parse treats it
\* as empty and continues its startup.
C17_UnreadableIndexTreatedAsEmpty ==
    (runs >= 1 /\ startIndexFile.st = "corrupt") =>
        /\ cause # "index_unreadable"
        /\ LoadedLen = 0
        /\ outcome # "failed" \/ enteredTry \/ cause = "keyboard_interrupt"

\* C18: the constructor of MetricsTracker does not fail on the history file:
\* a file that does not parse leaves the in-memory history empty, and a file
\* that parses is the in-memory history, record by record in order, to which
\* the process then appends.
C18_MetricsHistoryLoaded ==
    (outcome \notin {"none", "crashed"} /\ cause # "index_unreadable") =>
        /\ cause # "metrics_unreadable"
        /\ startMetricsFile.st # "ok" =>
             /\ LoadedMetricsLen = 0
             /\ ~enteredTry => metrics_history = <<>>
        /\ startMetricsFile.st = "ok" =>
             /\ Len(metrics_history) >= Len(startMetricsFile.data)
             /\ \A i \in DOMAIN startMetricsFile.data :
                    \A m \in DOMAIN startMetricsFile.data[i] :
                        metrics_history[i][startMetricsFile.data[i][m][1]]
                            = startMetricsFile.data[i][m][2]
             /\ ~enteredTry =>
                    Len(metrics_history) = Len(startMetricsFile.data)

\* A process started on a history file that does not parse is training, and
\* its history is empty.
C18_Witness ==
    /\ startMetricsFile.st = "corrupt"
    /\ outcome = "running"
    /\ pc = "train"
    /\ metrics_history = <<>>

\* ----------------------------------------------------------- failed writes
\* C19: a write of metadata.json, of the checkpoint index or of the metrics
\* history that raises during a cadence, final or interrupted save makes
\* train() fail: the call ends neither completed nor interrupted, it does
\* nothing more than stop the trainer, and the exception reaches the caller.
C19_WriteFailurePropagated ==
    cause = "write_error" =>
        /\ outcome = "failed"
        /\ saveKind \in {"cadence", "final", "interrupted"}
        /\ pc \in {"finally", "done"}
        /\ pc = "finally" => stops = 0
        /\ pc = "done" => stops = 1

\* The write of the metrics history failed on the interrupted path, after the
\* interrupted checkpoint had reached the index.
C19_Witness ==
    /\ cause = "write_error"
    /\ saveKind = "interrupted"
    /\ pc = "done"
    /\ Len(Appended) >= 1
    /\ indexFile = File(checkpoint_history)
    /\ metricsFile # File(JsonDump(metrics_history))

\* ------------------------------------------------------ metrics round trip
\* save_metrics has just returned.
MetricsPersisted == pc = "save_metrics" /\ pc' \in {"loop", "summary"}

\* The constructors of a new process have just run.
TrackerConstructed ==
    pc = "done" /\ runs' = runs + 1 /\ cause' # "index_unreadable"

\* C20: save_metrics leaves in the file the whole in-memory history, the
\* records loaded at startup included, and a new MetricsTracker on a file that
\* parses holds the file's records in order; so the process that follows one
\* that ended completed or interrupted starts from the very history that one
\* had in memory.
C20_MetricsHistoryRoundTrip ==
    [][/\ MetricsPersisted =>
            /\ metricsFile'.st = "ok"
            /\ Len(metricsFile'.data) = Len(metrics_history)
            /\ JsonLoad(metricsFile'.data) = metrics_history
       /\ (TrackerConstructed /\ metricsFile.st = "ok") =>
            /\ metrics_history' = JsonLoad(metricsFile.data)
            /\ JsonDump(metrics_history') = metricsFile.data
       /\ (TrackerConstructed /\ outcome \in {"completed", "interrupted"}) =>
            metrics_history' = metrics_history
      ]_vars

\* A second process has loaded the two records the first one persisted.
C20_Witness ==
    /\ runs = 2
    /\ ~enteredTry
    /\ outcome = "running"
    /\ startMetricsFile.st = "ok"
    /\ metrics_history = JsonLoad(startMetricsFile.data)
    /\ Len(metrics_history) = 2
    /\ metrics_history[1].iteration = 1
    /\ metrics_history[2].iteration = 2
    /\ metrics_history[2].total_episodes > metrics_history[1].total_episodes

\* ------------------------------------------------ extract_metrics over inputs
StatKeys == {"kl", "entropy", "total_loss", "vf_loss"}

\* The statistics a policy reports in full: four different values, those of
\* the hider different from those of the seeker.
FullStats(policy) ==
    IF policy = "seeker_policy"
    THEN [kl |-> 1, entropy |-> 2, total_loss |-> 3, vf_loss |-> 4]
    ELSE [kl |-> 5, entropy |-> 6, total_loss |-> 7, vf_loss |-> 8]

\* What learner_info can hold for a policy: an entry without learner_stats,
\* or learner_stats reporting any part of the statistics.
PolicyEntries(policy) ==
    {EmptyMeta} \cup
    { [learner_stats |-> Restrict(FullStats(policy), keys)] :
        keys \in SUBSET StatKeys }

\* learner_info with any part of the policy set.
LearnerInputs ==
    UNION { { l \in [pols -> PolicyEntries("seeker_policy")
                                \cup PolicyEntries("hider_policy")] :
                \A p \in pols : l[p] \in PolicyEntries(p) } :
            pols \in SUBSET Policies }

InfoInputs == {EmptyMeta} \cup { [learner |-> l] : l \in LearnerInputs }

EnvInputs ==
    { EmptyMeta,
      [episodes_this_iter |-> MaxDelta],
      [episodes_this_iter |-> MaxDelta, episode_len_mean |-> 3,
       episode_reward_mean |-> 2] }

\* Results of trainer.train() with and without env_runners and info.
ResultInputs ==
    { Restrict([env_runners |-> e, info |-> i], keys) :
        e \in EnvInputs, i \in InfoInputs,
        keys \in SUBSET {"env_runners", "info"} }

\* The process is in its first or second iteration, the training step has
\* returned one of the results and its episodes are in the counter.
InitMetrics ==
    /\ EmptyDisk
    /\ EnvBuilt(0)
    /\ config = Config(1, 4, 1)
    /\ restore_checkpoint = NoRestore
    /\ checkpoint_history = <<>>
    /\ metadata = EmptyMeta
    /\ is_valid = TRUE
    /\ issues = <<>>
    /\ episodes_per_iteration = 2
    /\ training_iterations = 2
    /\ episode_offset = 0
    /\ start_iteration = 1
    /\ result \in ResultInputs
    /\ episodes_this_iter = EpisodesThisIter(result)
    /\ \E before \in {<<>>, <<ExtractMetrics(StepResult(0), 1, 0, 0, 1)>>} :
         /\ metrics_history = before
         /\ iteration = Len(before) + 1
         /\ trainLog = [i \in 1..(Len(before) + 1) |-> i]
         /\ accounted = [i \in 1..(Len(before) + 1) |->
                            IF i <= Len(before) THEN 0 ELSE episodes_this_iter]
    /\ total_episodes_completed = episodes_this_iter
    /\ saveKind = "none"
    /\ stops = 0
    /\ enteredTry = TRUE
    /\ startIndexFile = Absent
    /\ startMetricsFile = Absent
    /\ metaFileAtLoad = "none"
    /\ snapAtLoad = "none"
    /\ pc = "extract"
    /\ outcome = "running"
    /\ cause = "none"
    /\ runs = 1
    /\ prev = NoPrev

SpecMetrics == InitMetrics /\ [][Extract]_vars

\* The field of the metrics record that holds a statistic of a policy.
StatField ==
    [seeker_policy |-> [kl |-> "seeker_kl", entropy |-> "seeker_entropy",
                        total_loss |-> "seeker_loss", vf_loss |-> "seeker_vf_loss"],
     hider_policy  |-> [kl |-> "hider_kl", entropy |-> "hider_entropy",
                        total_loss |-> "hider_loss", vf_loss |-> "hider_vf_loss"]]

\* The result reports the statistic of the policy.
Reports(res, policy, stat) ==
    /\ "info" \in DOMAIN res
    /\ "learner" \in DOMAIN res["info"]
    /\ policy \in DOMAIN res["info"]["learner"]
    /\ "learner_stats" \in DOMAIN res["info"]["learner"][policy]
    /\ stat \in DOMAIN res["info"]["learner"][policy]["learner_stats"]

\* C23: extract_metrics appends exactly one record to the history, whatever
\* the result lacks; each statistic of a policy is the value the result
\* reports for that policy and 0 when the result does not report it, and the
\* episode means are 0 when env_runners does not report them.
C23_ExtractDefaultsToZero ==
    [][pc = "extract" =>
        LET rec == metrics_history'[Len(metrics_history')] IN
        /\ pc' = "cadence"
        /\ metrics_history' = Append(metrics_history, rec)
        /\ DOMAIN rec = {MetricsKeys[i] : i \in DOMAIN MetricsKeys}
        /\ rec["iteration"] = iteration
        /\ rec["episodes_this_iter"] = episodes_this_iter
        /\ rec["total_episodes"] = total_episodes_completed
        /\ \A p \in Policies : \A s \in StatKeys :
              rec[StatField[p][s]] =
                  IF Reports(result, p, s)
                  THEN result["info"]["learner"][p]["learner_stats"][s]
                  ELSE 0
        /\ rec["episode_len_mean"] =
              IF "env_runners" \in DOMAIN result
                 /\ "episode_len_mean" \in DOMAIN result["env_runners"]
              THEN result["env_runners"]["episode_len_mean"] ELSE 0
      ]_vars

\* A result without the hider's statistics was extracted: the record has the
\* seeker's values and zeros for the hider.
C23_Witness ==
    /\ pc = "cadence"
    /\ Len(metrics_history) = 2
    /\ "info" \in DOMAIN result
    /\ "learner" \in DOMAIN result["info"]
    /\ DOMAIN result["info"]["learner"] = {"seeker_policy"}
    /\ metrics_history[2]["seeker_kl"] = 1
    /\ metrics_history[2]["seeker_vf_loss"] = 4
    /\ metrics_history[2]["hider_kl"] = 0
    /\ metrics_history[2]["hider_entropy"] = 0
    /\ metrics_history[2]["hider_loss"] = 0
    /\ metrics_history[2]["hider_vf_loss"] = 0

\* ----------------------------------------------- generate_summary over inputs
\* Results of the iterations of a loaded history: the early ones report short
\* episodes and no learner statistics, the late ones long episodes and the
\* statistics of both policies.
EarlyResult ==
    [env_runners |-> [episodes_this_iter |-> MaxDelta, episode_len_mean |-> 1,
                      episode_reward_mean |-> 2]]

LateResult ==
    [env_runners |-> [episodes_this_iter |-> MaxDelta, episode_len_mean |-> 3,
                      episode_reward_mean |-> 1],
     info |-> [learner |-> [p \in Policies |-> [learner_stats |-> FullStats(p)]]]]

\* Histories of up to MaxHistory records extract_metrics built, early results
\* up to some iteration and late ones after it.
HistoryInputs ==
    UNION { { [i \in 1..n |->
                 ExtractMetrics(IF i <= k THEN EarlyResult ELSE LateResult,
                                i, MaxDelta, i * MaxDelta, 1)] :
              k \in 0..n } :
            n \in 0..MaxHistory }

\* A fresh start on a directory that holds a metrics history (or none) was
\* cancelled during its first training step; the interrupted checkpoint and
\* the history are saved and print_summary is next.
InitSummary ==
    /\ EnvBuilt(0)
    /\ config = Config(1, 4, 1)
    /\ restore_checkpoint = NoRestore
    /\ metadata = EmptyMeta
    /\ is_valid = TRUE
    /\ issues = <<>>
    /\ episodes_per_iteration = 2
    /\ training_iterations = 2
    /\ episode_offset = 0
    /\ start_iteration = 1
    /\ iteration = 1
    /\ total_episodes_completed = 0
    /\ episodes_this_iter = 0
    /\ result = EmptyMeta
    /\ saveKind = "interrupted"
    /\ checkpoint_history = <<IndexRecord(1, SaveMetricsArg)>>
    /\ indexFile = File(checkpoint_history)
    /\ ckptDir = [n \in Names |->
                    IF n = CheckpointName(1)
                    THEN [snap |-> "full",
                          meta |-> File(BuildMetadata(1, config, SaveMetricsArg))]
                    ELSE [snap |-> "none", meta |-> Absent]]
    /\ metrics_history \in HistoryInputs
    /\ startMetricsFile = IF metrics_history = <<>> THEN Absent
                          ELSE File(JsonDump(metrics_history))
    /\ metricsFile = File(JsonDump(metrics_history))
    /\ summaryFile = Absent
    /\ stops = 0
    /\ trainLog = <<>>
    /\ accounted = <<>>
    /\ enteredTry = TRUE
    /\ startIndexFile = Absent
    /\ metaFileAtLoad = "none"
    /\ snapAtLoad = "none"
    /\ pc = "summary"
    /\ outcome = "running"
    /\ cause = "none"
    /\ runs = 1
    /\ prev = NoPrev

\* metrics_tracker.generate_summary() called on the tracker by itself
GenerateSummaryCall ==
    /\ pc = "summary"
    /\ summaryFile' = SummaryFileAfter(metrics_history, summaryFile)
    /\ UNCHANGED <<envVars, indexFile, ckptDir, metricsFile, setupVars, loopVars, memVars,
                   pc, saveKind, outcome, cause, stops, trainLog, accounted,
                   enteredTry, histVars>>

NextSummary == GenerateSummaryCall \/ Summary

SpecSummary == InitSummary /\ [][NextSummary]_vars

\* C21: generate_summary of a non-empty history averages the episode length
\* and reward over exactly its last min(20, length) records (all of them when
\* there are fewer than 20) and takes its final_* fields from the last record.
C21_SummaryOverRecentWindow ==
    [][pc = "summary" /\ metrics_history # <<>> =>
        LET n == Len(metrics_history)
            w == IF n < RecentWindowSize THEN n ELSE RecentWindowSize
            last == metrics_history[n]
            s == summaryFile'.data
        IN  /\ summaryFile'.st = "ok"
            /\ s["avg_episode_length_recent"] =
                 [sum   |-> SumOver([i \in 1..w |->
                               metrics_history[n - w + i]["episode_len_mean"]]),
                  count |-> w]
            /\ s["avg_episode_reward_recent"] =
                 [sum   |-> SumOver([i \in 1..w |->
                               metrics_history[n - w + i]["episode_reward_mean"]]),
                  count |-> w]
            /\ n < RecentWindowSize => s["avg_episode_length_recent"]["count"] = n
            /\ s["total_iterations"] = n
            /\ s["total_episodes"] = last["total_episodes"]
            /\ s["final_episode_length"] = last["episode_len_mean"]
            /\ s["final_episode_reward"] = last["episode_reward_mean"]
            /\ s["seeker_final_kl"] = last["seeker_kl"]
            /\ s["hider_final_kl"] = last["hider_kl"]
            /\ s["seeker_final_entropy"] = last["seeker_entropy"]
            /\ s["hider_final_entropy"] = last["hider_entropy"]
      ]_vars

\* The summary of a history longer than the window was written: 20 of its 22
\* records are averaged, and the two early records before them are left out.
C21_Witness ==
    /\ pc = "finally"
    /\ Len(metrics_history) = MaxHistory
    /\ metrics_history[1]["episode_len_mean"] = 1
    /\ metrics_history[3]["episode_len_mean"] = 3
    /\ summaryFile.st = "ok"
    /\ summaryFile.data["avg_episode_length_recent"]["count"] = RecentWindowSize
    /\ summaryFile.data["avg_episode_length_recent"]["sum"] = 3 * RecentWindowSize
    /\ summaryFile.data["seeker_final_kl"] = 1

\* C22: generate_summary of an empty history returns the empty summary,
\* writes no summary file and raises nothing; on any history it leaves the
\* history in memory as it was, and a call that follows a call on the same
\* history writes the same summary again.
C22_SummaryLeavesHistory ==
    [][pc = "summary" =>
        /\ metrics_history' = metrics_history
        /\ outcome' # "failed"
        /\ metrics_history = <<>> =>
              /\ GenerateSummary(metrics_history) = EmptyMeta
              /\ summaryFile' = summaryFile
        /\ summaryFile.st = "ok" => summaryFile' = summaryFile
      ]_vars

\* print_summary ran on an empty history: no summary file, and train() goes
\* on to its interrupted return.
C22_Witness ==
    /\ pc = "finally"
    /\ outcome = "interrupted"
    /\ metrics_history = <<>>
    /\ metricsFile = File(JsonDump(<<>>))
    /\ summaryFile = Absent

\* The iteration numbers of the records of a history increase along it.
IterationsIncrease(history) ==
    \A i, j \in DOMAIN history :
        i < j => history[i]["iteration"] < history[j]["iteration"]

\* One process is running before and after the step.
SameProcess == pc # "done" /\ pc' # "done"

\* C24 as stated: the in-memory metrics history only grows at its end while
\* a process runs, and after any reloads, extracts and resumed runs the
\* iteration numbers of its records are in increasing order.
C24_HistoryAppendOnlyOrdered ==
    [][/\ SameProcess =>
            /\ Len(metrics_history') >= Len(metrics_history)
            /\ SubSeq(metrics_history', 1, Len(metrics_history)) = metrics_history
       /\ IterationsIncrease(metrics_history')
      ]_vars

\* C24 amended: while a process runs, a step leaves the in-memory metrics
\* history as it was or appends one record, and the records the process has
\* appended itself have increasing iteration numbers; the records loaded from
\* the file are kept in front of them whatever their iterations are.
C24_HistoryAppendOnly ==
    [][SameProcess =>
        /\ \/ metrics_history' = metrics_history
           \/ /\ Len(metrics_history') = Len(metrics_history) + 1
              /\ SubSeq(metrics_history', 1, Len(metrics_history)) = metrics_history
        /\ LoadedMetricsLen' <= Len(metrics_history')
        /\ IterationsIncrease(SubSeq(metrics_history', LoadedMetricsLen' + 1,
                                     Len(metrics_history')))
      ]_vars

\* A process that loaded the two records of an earlier one has appended two
\* records of its own behind them.
C24_Witness ==
    /\ LoadedMetricsLen = 2
    /\ Len(metrics_history) = 4
    /\ metrics_history[3]["iteration"] = 1
    /\ metrics_history[4]["iteration"] = 2

\* save_checkpoint appends its record to the in-memory index.
IndexAppends == pc = "save_append" /\ pc' = "save_index"

\* save_checkpoint has rewritten the index file and returns.
IndexRewritten == pc = "save_index" /\ pc' = "save_metrics"

\* C25: the checkpoint index is append-only.  A save_checkpoint keeps every
\* record of the in-memory index unchanged and in place and appends exactly
\* one record, that of the saved iteration; the rewritten index file holds
\* the in-memory list, in front of which the records the file held before
\* are unchanged; no other step of a process changes the in-memory index.
C25_IndexAppendOnly ==
    [][/\ IndexAppends =>
            /\ Len(checkpoint_history') = Len(checkpoint_history) + 1
            /\ SubSeq(checkpoint_history', 1, Len(checkpoint_history))
                 = checkpoint_history
            /\ checkpoint_history'[Len(checkpoint_history')]
                 = IndexRecord(SaveIteration, SaveMetricsArg)
       /\ IndexRewritten =>
            /\ checkpoint_history' = checkpoint_history
            /\ indexFile' = File(checkpoint_history)
            /\ indexFile.st = "ok" =>
                 /\ Len(indexFile'.data) > Len(indexFile.data)
                 /\ SubSeq(indexFile'.data, 1, Len(indexFile.data))
                      = indexFile.data
       /\ SameProcess /\ ~IndexAppends =>
            checkpoint_history' = checkpoint_history
      ]_vars

\* A process that loaded an index of two records has saved a checkpoint: the
\* file holds the two records and the new one behind them.
C25_Witness ==
    /\ pc = "save_metrics"
    /\ LoadedLen = 2
    /\ Len(checkpoint_history) = 3
    /\ SubSeq(checkpoint_history, 1, 2) = startIndexFile.data
    /\ indexFile = File(checkpoint_history)

\* The cadence test of the iteration is decided (the step is not a
\* cancellation, a kill or a failure).
CadenceDecided == pc = "cadence" /\ pc' \in {"save_snap", "loop"} /\ saveKind' # "interrupted"

\* The cadence arguments of save_checkpoint at this moment.
CadenceArg ==
    [total_episodes     |-> total_episodes_completed,
     episodes_this_iter |-> episodes_this_iter]

\* C26: in the loop a cadence checkpoint is begun at iteration i exactly when
\* i mod checkpoint_freq = 0; when save_metrics of a cadence iteration
\* starts, save_checkpoint has completed (snapshot, metadata carrying the
\* cumulative episode count, index record and index file), and the metrics
\* file is written at no other point.
C26_CadenceSaveThenPersist ==
    [][/\ CadenceDecided =>
            ((pc' = "save_snap" /\ saveKind' = "cadence")
               <=> iteration % config.checkpoint_freq = 0)
       /\ (saveKind' = "cadence" /\ saveKind # "cadence") => CadenceDecided
       /\ (saveKind' = "cadence" /\ pc' = "save_metrics") =>
            /\ ckptDir'[CheckpointName(iteration')].snap = "full"
            /\ ckptDir'[CheckpointName(iteration')].meta =
                 File(BuildMetadata(iteration', config', CadenceArg'))
            /\ ckptDir'[CheckpointName(iteration')].meta.data["total_episodes"]
                 = total_episodes_completed'
            /\ checkpoint_history' # <<>>
            /\ checkpoint_history'[Len(checkpoint_history')]
                 = IndexRecord(iteration', CadenceArg')
            /\ indexFile' = File(checkpoint_history')
       /\ metricsFile' # metricsFile => pc = "save_metrics"
      ]_vars

\* With checkpoint_freq 2 the cadence save of iteration 2 has completed and
\* save_metrics is about to start; iteration 1 saved nothing.
C26_Witness ==
    /\ pc = "save_metrics"
    /\ saveKind = "cadence"
    /\ config.checkpoint_freq = 2
    /\ iteration = 2
    /\ runs = 1
    /\ Len(checkpoint_history) = 1
    /\ indexFile = File(checkpoint_history)
    /\ metricsFile = Absent

\* The iterations start_iteration .. start_iteration + n - 1 in order.
IterationRange(n) == [i \in 1..n |-> start_iteration + i - 1]

\* C27: the training steps of a running call are those of the iterations
\* start_iteration, start_iteration + 1, ... in that order, one step each,
\* and the metrics records the call appends are those of the same iterations
\* in the same order, at most one behind the steps; a call that completes has
\* made exactly the steps start_iteration .. training_iterations and appended
\* exactly one record for each.
C27_IterationsInOrderOnce ==
    pc # "done" =>
        /\ trainLog = IterationRange(Len(trainLog))
        /\ Len(AppendedMetrics) \in {Len(trainLog) - 1, Len(trainLog)}
        /\ \A i \in DOMAIN AppendedMetrics :
              AppendedMetrics[i]["iteration"] = trainLog[i]
        /\ outcome = "completed" =>
              /\ Len(trainLog) =
                   IF start_iteration > training_iterations THEN 0
                   ELSE training_iterations - start_iteration + 1
              /\ Len(AppendedMetrics) = Len(trainLog)
              /\ DOMAIN accounted = start_iteration..training_iterations

\* A call resumed from the checkpoint of iteration 1 has completed: it made
\* the one step of iteration 2 and appended its record.
C27_Witness ==
    /\ pc = "finally"
    /\ outcome = "completed"
    /\ start_iteration = 2
    /\ training_iterations = 2
    /\ trainLog = <<2>>
    /\ Len(AppendedMetrics) = 1
    /\ AppendedMetrics[1]["iteration"] = 2

\* The state of the lifecycle an execution of train() is in: the outcome once
\* it has one, else the save in progress, else its position.
Phase ==
    CASE outcome \in {"failed", "exit1"} -> "FAILED"
      [] outcome = "completed"   -> "COMPLETED"
      [] outcome = "interrupted" -> "INTERRUPTED"
      [] outcome = "running" /\ saveKind = "interrupted" -> "INTERRUPTED"
      [] outcome = "running" /\ saveKind = "final"       -> "COMPLETED"
      [] outcome = "running" /\ saveKind = "cadence"     -> "CHECKPOINTING"
      [] outcome = "running" /\ saveKind = "none"
         /\ pc \in {"loop", "train", "account", "extract", "cadence"} -> "RUNNING"
      [] outcome = "running" /\ saveKind = "none"
         /\ pc \in {"restore", "create", "pretry"} -> "STARTING"
      [] OTHER -> "NONE"

\* The states that may follow a state in the lifecycle as it is stated, a
\* failure while STARTING counted as FAILED.
StatedSuccessors(phase) ==
    CASE phase = "STARTING"      -> {"STARTING", "RUNNING", "FAILED"}
      [] phase = "RUNNING"       -> {"RUNNING", "CHECKPOINTING", "COMPLETED",
                                     "INTERRUPTED", "FAILED"}
      [] phase = "CHECKPOINTING" -> {"CHECKPOINTING", "RUNNING", "INTERRUPTED",
                                     "FAILED"}
      [] OTHER                   -> {phase}

\* The states that may follow a state in the code: a cancellation during the
\* final save or the summary leaves COMPLETED for INTERRUPTED, and a failure
\* or a second cancellation leaves COMPLETED or INTERRUPTED for FAILED.
CodeSuccessors(phase) ==
    CASE phase = "COMPLETED"   -> {"COMPLETED", "INTERRUPTED", "FAILED"}
      [] phase = "INTERRUPTED" -> {"INTERRUPTED", "FAILED"}
      [] OTHER                 -> StatedSuccessors(phase)

\* A step of one execution of train() that is not the kill of its process.
ExecutionStep == runs' = runs /\ outcome' # "crashed" /\ outcome # "crashed"

LoopPcs == {"loop", "train", "account", "extract", "cadence"}

\* C28 as stated: an execution moves STARTING -> RUNNING ->
\* {CHECKPOINTING -> RUNNING}* -> terminal, enters one terminal state only
\* and stays in it; after that no training step and no cadence checkpoint
\* occurs; a save begins only when no other save is in progress.
C28_LifecycleAsStated ==
    [][ExecutionStep =>
        /\ Phase' \in StatedSuccessors(Phase)
        /\ Phase \in {"COMPLETED", "INTERRUPTED", "FAILED"} =>
              /\ trainLog' = trainLog
              /\ saveKind' = "cadence" => saveKind = "cadence"
              /\ pc \notin LoopPcs
        /\ Phase = "FAILED" => UNCHANGED diskVars
        /\ (saveKind' # saveKind /\ saveKind' # "none") => saveKind = "none"
      ]_vars

\* C28 amended: the same, except that the terminal states are not exclusive:
\* COMPLETED can be left for INTERRUPTED or FAILED and INTERRUPTED for
\* FAILED (never the other way round and never back to RUNNING or
\* CHECKPOINTING), and the interrupted save begins whatever save is in
\* progress, which is abandoned.
C28_LifecycleOfCode ==
    [][ExecutionStep =>
        /\ Phase' \in CodeSuccessors(Phase)
        /\ Phase \in {"COMPLETED", "INTERRUPTED", "FAILED"} =>
              /\ trainLog' = trainLog
              /\ saveKind' = "cadence" => saveKind = "cadence"
              /\ pc \notin LoopPcs
        /\ Phase = "FAILED" => UNCHANGED diskVars
        /\ (saveKind' # saveKind /\ saveKind' \in {"cadence", "final"}) =>
              saveKind = "none"
        /\ (saveKind' # saveKind /\ saveKind' = "interrupted") =>
              saveKind \in {"none", "cadence", "final"}
      ]_vars

\* An execution of one iteration with checkpoint_freq 2 took its final save
\* (no cadence save is due at iteration 1), was cancelled after it and ended
\* INTERRUPTED with a second record for the same iteration.
C28_Witness ==
    /\ pc = "finally"
    /\ outcome = "interrupted"
    /\ config.checkpoint_freq = 2
    /\ training_iterations = 1
    /\ trainLog = <<1>>
    /\ Len(Appended) = 2
    /\ Appended[1].iteration = 1
    /\ Appended[2].iteration = 1

\* The deltas of the iterations up to iter that this process has accounted.
AccountedUpTo(iter) ==
    [i \in {j \in DOMAIN accounted : j <= iter} |-> accounted[i]]

\* C29: from the entry of the loop on, the cumulative episode counter is the
\* episode offset (zero on a fresh start, the resolved offset on resume) plus
\* the sum of the deltas of the iterations accounted in this process, and the
\* total_episodes of each record the process appended is the offset plus the
\* deltas accounted up to the iteration of the record, the counter at the
\* moment of its extract.
C29_CounterIsOffsetPlusDeltas ==
    (enteredTry /\ pc # "done") =>
        /\ total_episodes_completed = episode_offset + SumOver(accounted)
        /\ restore_checkpoint = NoRestore => episode_offset = 0
        /\ \A i \in DOMAIN AppendedMetrics :
              AppendedMetrics[i]["total_episodes"] =
                  episode_offset
                    + SumOver(AccountedUpTo(AppendedMetrics[i]["iteration"]))
        /\ (pc = "cadence" /\ AppendedMetrics # <<>>) =>
              AppendedMetrics[Len(AppendedMetrics)]["total_episodes"]
                  = total_episodes_completed

\* A resumed process with a positive offset has accounted an iteration of one
\* episode and appended its record.
C29_Witness ==
    /\ pc = "cadence"
    /\ Restored
    /\ episode_offset > 0
    /\ SumOver(accounted) = MaxDelta
    /\ Len(AppendedMetrics) = 1
    /\ AppendedMetrics[1]["total_episodes"] = episode_offset + MaxDelta

\* ------------------------------------------- checkpoint names over iterations
RECURSIVE Pow10(_)
Pow10(k) == IF k = 0 THEN 1 ELSE 10 * Pow10(k - 1)

\* The iterations whose checkpoints are resumed from: the first ones, and
\* those around the first number wider than the padding of the name.
NameIterations ==
    (1..MaxNameIteration)
      \cup {Pow10(NameWidth) - 1, Pow10(NameWidth), Pow10(NameWidth) + 1}

\* train() is called with restore_checkpoint = name, over a checkpoint
\* directory holding that checkpoint's metadata file and snapshot and an index
\* holding history, and is about to run its restore block.
ResumeNamed(name, meta, history, snap) ==
      /\ NoEnv
      /\ config = Config(1, 4, 1)
      /\ restore_checkpoint = name
      /\ ckptDir = [nm \in Names \cup {name} |->
                      IF nm = name
                      THEN [snap |-> snap, meta |-> meta]
                      ELSE [snap |-> "none", meta |-> Absent]]
      /\ checkpoint_history = history
      /\ indexFile = File(checkpoint_history)
      /\ startIndexFile = indexFile
      /\ metricsFile = Absent
      /\ startMetricsFile = Absent
      /\ summaryFile = Absent
      /\ metrics_history = <<>>
      /\ metadata = EmptyMeta
      /\ is_valid = TRUE
      /\ issues = <<>>
      /\ episodes_per_iteration = 2
      /\ training_iterations = 2
      /\ episode_offset = 0
      /\ start_iteration = 1
      /\ iteration = 0
      /\ total_episodes_completed = 0
      /\ episodes_this_iter = 0
      /\ result = EmptyMeta
      /\ saveKind = "none"
      /\ stops = 0
      /\ trainLog = <<>>
      /\ accounted = <<>>
      /\ enteredTry = FALSE
      /\ metaFileAtLoad = "none"
      /\ snapAtLoad = "none"
      /\ pc = "restore"
      /\ outcome = "running"
      /\ cause = "none"
      /\ runs = 1
      /\ prev = NoPrev

\* A process killed right after save_checkpoint of iteration n returned left
\* the checkpoint and the index; train() is called with restore_checkpoint
\* naming that checkpoint.
ResumeFrom(n, total, snap) ==
    LET arg == [total_episodes |-> total, episodes_this_iter |-> total] IN
    ResumeNamed(CheckpointName(n),
                File(BuildMetadata(n, Config(1, 4, 1), arg)),
                <<IndexRecord(n, arg)>>, snap)

InitName ==
    \E n \in NameIterations, total \in {0, MaxDelta} : ResumeFrom(n, total, "full")

SpecName == InitName /\ [][RestoreCheckpoint]_vars

\* C30: after the restore block has accepted a checkpoint directory that
\* save_checkpoint named for iteration n, start_iteration is n + 1: the name
\* of a positive iteration, zero-padded to six digits (and longer when the
\* number is wider), parses back to n.
C30_NameRoundTrip ==
    (pc = "create" /\ metaFileAtLoad = "ok") =>
        LET n == checkpoint_history[1].iteration IN
        /\ n > 0
        /\ restore_checkpoint = checkpoint_history[1].path
        /\ Len(restore_checkpoint) >= Len(CheckpointPrefix) + NameWidth
        /\ ParsedIteration(restore_checkpoint) = n
        /\ metadata["iteration"] = n
        /\ start_iteration = n + 1

\* The checkpoint of an iteration of seven digits was accepted: its name is
\* longer than the padded width and start_iteration follows it.
C30_Witness ==
    /\ pc = "create"
    /\ metaFileAtLoad = "ok"
    /\ checkpoint_history[1].iteration = Pow10(NameWidth)
    /\ Len(restore_checkpoint) = Len(CheckpointPrefix) + NameWidth + 1
    /\ start_iteration = Pow10(NameWidth) + 1

\* The metadata the process loaded records this field with a value different
\* from v.
Differs(field, v) == field \in DOMAIN metadata /\ metadata[field] # v

\* C31: validate_checkpoint_config returns ok exactly when its issue list is
\* empty; the list holds the observation issue exactly when the recorded
\* observation size differs from the config's and the action issue exactly
\* when the recorded action size differs from 7, both of them when both
\* differ; a changed max_steps or train_batch_size adds no issue.
C31_IssuesListEveryHardMismatch ==
    metaFileAtLoad = "ok" =>
        /\ is_valid <=> (issues = <<>>)
        /\ issues =
             (IF Differs("observation_size", config.observation_size)
              THEN <<"observation_size">> ELSE <<>>)
             \o (IF Differs("action_size", ActionSize)
                 THEN <<"action_size">> ELSE <<>>)
        /\ (Differs("observation_size", config.observation_size)
              /\ Differs("action_size", ActionSize)) => Len(issues) = 2
        /\ \A i \in DOMAIN issues :
              issues[i] \notin {"max_steps", "train_batch_size"}

\* Both dimensionalities and both soft fields differ: two issues.
C31_Witness ==
    /\ metaFileAtLoad = "ok"
    /\ Differs("observation_size", config.observation_size)
    /\ Differs("action_size", ActionSize)
    /\ Differs("max_steps", config.max_steps)
    /\ Differs("train_batch_size", config.train_batch_size)
    /\ issues = <<"observation_size", "action_size">>
    /\ ~is_valid
    /\ outcome = "exit1"

\* ------------------------------------------------- the environment wrapper
\* RLlibMinecraftEnv.reset returns: the wrapper hands its episode count to the
\* environment as options['episode_number'] and then advances it.  The
\* learning algorithm resets its environments inside trainer.train().
EnvReset ==
    /\ pc = "train"
    /\ env_alive
    /\ Len(episode_numbers) < MaxResets
    /\ episode_numbers' = Append(episode_numbers, episode_count)
    /\ episode_count' = episode_count + 1
    /\ UNCHANGED <<diskVars, pc, setupVars, loopVars, memVars, saveKind, outcome,
                   cause, stops, env_alive, trainLog, accounted, enteredTry,
                   histVars>>

\* self.env.reset raises after the episode number was handed over: the count
\* is not advanced, and the exception leaves the wrapper for the learning
\* algorithm, which resets it no more (no restart of failed environments is
\* configured).
EnvResetRaises ==
    /\ pc = "train"
    /\ env_alive
    /\ Len(episode_numbers) < MaxResets
    /\ episode_numbers' = Append(episode_numbers, episode_count)
    /\ env_alive' = FALSE
    /\ UNCHANGED <<diskVars, pc, setupVars, loopVars, memVars, saveKind, outcome,
                   cause, stops, episode_count, trainLog, accounted, enteredTry,
                   histVars>>

\* train() resumes from the checkpoint of iteration 1, whose snapshot is
\* complete or partial and whose metadata records some total_episodes.
InitEnv ==
    \E total \in 0..MaxEnvOffset, snap \in {"full", "partial"} :
        ResumeFrom(1, total, snap)

NextEnv ==
    \/ RestoreCheckpoint
    \/ CreateTrainer
    \/ PreTry
    \/ LoopNext
    \/ EnvReset
    \/ EnvResetRaises

SpecEnv == InitEnv /\ [][NextEnv]_vars

\* C32: the k-th reset of the environment wrapper the trainer built with
\* episode offset O hands episode_number O + k - 1 to the environment, O
\* being the episode offset train() resolved from the checkpoint (its
\* recorded total_episodes when that is not zero); the numbering of a
\* resumed run does not restart at zero.
C32_EpisodeNumbersContinue ==
    /\ \A k \in DOMAIN episode_numbers :
          episode_numbers[k] = episode_offset + k - 1
    /\ (pc = "train" /\ env_alive) =>
          episode_count = episode_offset + Len(episode_numbers)
    /\ (pc = "train" /\ Truthy(metadata, "total_episodes")) =>
          /\ episode_offset = metadata["total_episodes"]
          /\ \A k \in DOMAIN episode_numbers :
                episode_numbers[k] = metadata["total_episodes"] + k - 1

\* A run resumed with three episodes carried over has reset its wrapper three
\* times: episodes 3, 4 and 5.
C32_Witness ==
    /\ pc = "train"
    /\ metadata["total_episodes"] = 3
    /\ episode_offset = 3
    /\ episode_numbers = <<3, 4, 5>>
    /\ episode_count = 6

\* ---------------------------------------------------------------- termination
\* The steps train() takes by itself, the external training step returning
\* or raising among them.
ProgramStep ==
    \/ RestoreCheckpoint
    \/ CreateTrainer
    \/ PreTry
    \/ LoopNext
    \/ \E delta \in Deltas : TrainStep(delta)
    \/ TrainRaises
    \/ Account
    \/ Extract
    \/ Cadence
    \/ SaveSnapshot
    \/ SaveMetadata
    \/ SaveAppend
    \/ SaveIndex
    \/ SaveMetrics
    \/ Summary
    \/ Finally

\* One call of train() is followed to its end: a fresh start on the empty
\* directory, or a resume from the checkpoint of iteration 1 or 2 of an
\* earlier process.
InitLive ==
    \/ Init
    \/ \E n \in 1..MaxIterations, total \in Deltas, snap \in {"full", "partial"} :
          ResumeFrom(n, total, snap)

StartLive == runs = 0 /\ \E cfg \in StartConfigs : Start(cfg, NoRestore)

\* What happens to a process that is not killed: its own steps, a
\* cancellation at any point, a write that fails.
NextLive ==
    \/ StartLive
    \/ ProgramStep
    \/ \E begun \in BOOLEAN : KeyboardInterrupt(begun)
    \/ \E begun \in BOOLEAN : WriteFails(begun)
    \/ \E begun \in BOOLEAN : InterruptInHandler(begun)
    \/ InterruptOutsideTry

\* Every step of train() that can be taken is taken in the end: the process
\* is single-threaded and blocks only in the external training step, which
\* returns or raises.
SpecLive == InitLive /\ [][NextLive]_vars /\ WF_vars(ProgramStep)

\* train() has returned, raised or exited.
Terminated ==
    pc = "done" /\ outcome \in {"completed", "interrupted", "failed", "exit1"}

\* The training steps a call can make: those of start_iteration ..
\* training_iterations.
StepBudget ==
    IF start_iteration > training_iterations THEN 0
    ELSE training_iterations - start_iteration + 1

\* C33: a call of train() whose process is not killed and whose training
\* steps return or raise ends (completed, interrupted, or failed with the
\* exception or the exit status), and it never makes more than
\* training_iterations - start_iteration + 1 training steps.
C33_TrainTerminates ==
    /\ [](pc # "done" => Len(trainLog) <= StepBudget)
    /\ (pc # "done") ~> Terminated

\* A call has ended completed after both training steps of its budget.
C33_Witness ==
    /\ Terminated
    /\ outcome = "completed"
    /\ start_iteration = 1
    /\ training_iterations = 2
    /\ Len(trainLog) = 2

\* create_ppo_trainer has returned the trainer to the running call of train().
TrainerCreated ==
    (env_alive \/ enteredTry) /\ cause # "restore_failed"

\* C34: once the trainer has been created, trainer.stop() is called exactly
\* once on every way out of train(), and never more than once.
C34_TrainerStoppedOnce ==
    /\ stops <= 1
    /\ (pc = "done" /\ TrainerCreated
          /\ outcome \in {"completed", "interrupted", "failed"}) => stops = 1

\* The running call resumes from a checkpoint whose iteration is not below
\* its training_iterations.
ResumedPastEnd ==
    /\ Restored
    /\ pc # "restore"
    /\ ParsedIteration(restore_checkpoint) >= training_iterations

\* C35: a call resumed from a checkpoint whose iteration is greater than or
\* equal to training_iterations makes no training step and appends no metrics
\* record; when it completes it has nevertheless saved a checkpoint at
\* iteration training_iterations, tagged final, and appended its record, the
\* only one of the call, to the index.
C35_ResumePastEndSavesOnly ==
    ResumedPastEnd =>
        /\ start_iteration > training_iterations
        /\ trainLog = <<>>
        /\ AppendedMetrics = <<>>
        /\ iteration = 0
        /\ outcome = "completed" =>
              LET name == CheckpointName(training_iterations) IN
              /\ Appended = <<IndexRecord(training_iterations,
                                          FinalMetrics(total_episodes_completed))>>
              /\ indexFile = File(checkpoint_history)
              /\ ckptDir[name].snap = "full"
              /\ ckptDir[name].meta =
                   File(BuildMetadata(training_iterations, config,
                                      FinalMetrics(total_episodes_completed)))

\* A call resumed from the checkpoint of iteration 2 with two iterations to
\* train has completed without a training step and left a second record for
\* iteration 2 in the index.
C35_Witness ==
    /\ pc = "finally"
    /\ outcome = "completed"
    /\ ResumedPastEnd
    /\ training_iterations = 2
    /\ restore_checkpoint = CheckpointName(2)
    /\ trainLog = <<>>
    /\ LoadedLen >= 1
    /\ Len(checkpoint_history) = LoadedLen + 1
    /\ checkpoint_history[Len(checkpoint_history)].iteration = 2

\* No save_checkpoint and no save_metrics is in progress.
NoSaveInProgress ==
    pc \notin {"save_snap", "save_meta", "save_append", "save_index",
               "save_metrics"}

\* The iterations of the records metrics_history.json holds, none when the
\* file is absent or does not parse.
PersistedMetricsIterations ==
    IF metricsFile.st = "ok"
    THEN {JsonLoad(metricsFile.data)[i]["iteration"] :
             i \in DOMAIN metricsFile.data}
    ELSE {}

\* The iterations of the records checkpoint_index.json holds, none when the
\* file is absent or does not parse.
PersistedIndexIterations ==
    IF indexFile.st = "ok"
    THEN {indexFile.data[i].iteration : i \in DOMAIN indexFile.data}
    ELSE {}

\* C36: whenever no save is in progress, every record of the persisted
\* metrics history has an iteration not above the highest iteration of the
\* persisted checkpoint index.
C36_MetricsNotAheadOfIndex ==
    NoSaveInProgress =>
        \A m \in PersistedMetricsIterations :
            \E c \in PersistedIndexIterations : m <= c

\* The restore block accepts the checkpoint.
RestoreAccepts == pc = "restore" /\ pc' = "create"

\* C37: when a save_checkpoint of train() returns, the total_episodes of the
\* record it appended to the index, the total_episodes of the metadata file
\* it wrote and the cumulative episode counter are equal; the records a call
\* has appended keep agreeing with the metadata files of their checkpoints;
\* and a resume from a checkpoint whose metadata records a non-zero
\* total_episodes starts its counter at exactly that value.
C37_SavedTotalIsCounter ==
    [][/\ IndexRewritten =>
            LET rec  == checkpoint_history'[Len(checkpoint_history')]
                meta == ckptDir'[rec.path].meta
            IN  /\ meta.st = "ok"
                /\ rec.iteration = meta.data["iteration"]
                /\ rec.total_episodes = total_episodes_completed'
                /\ meta.data["total_episodes"] = total_episodes_completed'
                /\ indexFile'.data[Len(indexFile'.data)] = rec
       /\ \A i \in DOMAIN Appended' :
            (ckptDir'[Appended'[i].path].meta.st = "ok"
               /\ ~(pc' = "save_append"))
              => ckptDir'[Appended'[i].path].meta.data["total_episodes"]
                   = Appended'[i].total_episodes
       /\ (RestoreAccepts /\ Truthy(metadata', "total_episodes")) =>
            /\ metadata' = ckptDir[restore_checkpoint].meta.data
            /\ episode_offset' = metadata'["total_episodes"]
       /\ (pc = "pretry" /\ pc' = "loop" /\ Truthy(metadata, "total_episodes")) =>
            total_episodes_completed' = metadata["total_episodes"]
      ]_vars

\* A process resumed from the checkpoint the previous one saved with one
\* episode counted: its counter starts at 1, the total of the index record
\* and of the metadata file.
C37_Witness ==
    /\ pc = "loop"
    /\ iteration = 0
    /\ Restored
    /\ Get(metadata, "total_episodes", 0) = MaxDelta
    /\ total_episodes_completed = MaxDelta
    /\ \E i \in DOMAIN checkpoint_history :
          /\ checkpoint_history[i].path = restore_checkpoint
          /\ checkpoint_history[i].total_episodes = MaxDelta

\* save_checkpoint has just written metadata.json.
MetadataWritten == pc = "save_meta" /\ pc' = "save_append"

\* C38: the metadata save_checkpoint writes under the configuration of the
\* process passes validate_checkpoint_config against that same configuration:
\* valid, with no issue (and no warning), whichever metrics train() passes
\* (the per-iteration, the final and the interrupted ones); it carries those
\* metrics beside the configuration fields.
C38_SavedCheckpointValidates ==
    [][MetadataWritten =>
         LET m == ckptDir'[CheckpointName(SaveIteration)].meta
             v == ValidateCheckpointConfig(m.data, config)
         IN  /\ m.st = "ok"
             /\ v.ok
             /\ v.issues = <<>>
             /\ v.warnings = <<>>
             /\ ~RefusesResume(v.ok)
             /\ \A k \in DOMAIN SaveMetricsArg : m.data[k] = SaveMetricsArg[k]
             /\ m.data["observation_size"] = config.observation_size
      ]_vars

\* The interrupted checkpoint's metadata, just written under the
\* configuration with the other observation size, and valid against it.
C38_Witness ==
    /\ pc = "save_append"
    /\ saveKind = "interrupted"
    /\ config = Config(2, 1, 2)
    /\ LET m == ckptDir[CheckpointName(SaveIteration)].meta
       IN  /\ m.st = "ok"
           /\ "interrupted" \in DOMAIN m.data
           /\ ValidateCheckpointConfig(m.data, config).ok

\* ------------------------------------------- resuming from any directory name
\* Final path components in which train() finds no iteration: "best" and
\* "checkpoint1" (no 'checkpoint_'), "checkpoint_" (int('') raises),
\* "checkpoint_last" and "checkpoint_1a" (int raises), "my_checkpoint_000001"
\* (split('_')[1] is 'checkpoint').
UnparseableNames ==
    {<<"b", "e", "s", "t">>,
     <<"c", "h", "e", "c", "k", "p", "o", "i", "n", "t", "1">>,
     CheckpointPrefix,
     CheckpointPrefix \o <<"l", "a", "s", "t">>,
     CheckpointPrefix \o <<"1", "a">>,
     <<"m", "y", "_">> \o CheckpointName(1)}

\* Names train() does read an iteration from: its own "checkpoint_000001", and
\* "x_1_checkpoint_" (split('_')[1] is '1').
ParseableNames ==
    {CheckpointName(1), <<"x", "_", "1", "_">> \o CheckpointPrefix}

\* The metadata files of the directory resumed from: none, one written by
\* save_checkpoint without metrics, and those written with total_episodes
\* from 0 up.
ResumeMetadataFiles ==
    {Absent, File(BuildMetadata(1, Config(1, 4, 1), EmptyMeta))}
      \cup {File(BuildMetadata(1, Config(1, 4, 1), [total_episodes |-> t])) :
               t \in 0..MaxEnvOffset}

InitResume ==
    \E name \in UnparseableNames \cup ParseableNames,
       meta \in ResumeMetadataFiles, snap \in {"full", "partial"} :
        ResumeNamed(name, meta, <<>>, snap)

NextResume == RestoreCheckpoint \/ CreateTrainer \/ PreTry \/ LoopNext

SpecResume == InitResume /\ [][NextResume]_vars

\* C39: a resume from a directory whose name holds no parseable iteration
\* (the metadata being readable and compatible) raises nothing in the restore
\* block, which goes on to create the trainer; start_iteration stays 1, the
\* episode offset is the metadata's total_episodes, 0 when the metadata has
\* none, and never the estimate iteration_num * episodes_per_iteration; the
\* counter then starts at that offset and the loop at iteration 1.
C39_UnparseableNameResumes ==
    [][(restore_checkpoint \in UnparseableNames) =>
         LET d == ckptDir[restore_checkpoint]
             m == GetCheckpointMetadata(d)
         IN  /\ (/\ pc = "restore"
                 /\ d.meta.st # "corrupt"
                 /\ ValidateCheckpointConfig(m, config).ok) =>
                    /\ pc' = "create"
                    /\ outcome' = "running"
                    /\ cause' = "none"
                    /\ start_iteration' = 1
                    /\ episode_offset' = Get(m, "total_episodes", 0)
                    /\ ("total_episodes" \notin DOMAIN m => episode_offset' = 0)
             /\ (pc = "pretry" /\ pc' = "loop") =>
                    total_episodes_completed' = Get(m, "total_episodes", 0)
             /\ (pc = "loop" /\ pc' = "train") => iteration' = 1
      ]_vars

\* The restore block has passed "my_checkpoint_000001", whose metadata records
\* total_episodes 0: the offset is 0 and start_iteration 1, where the name
\* "checkpoint_000001" would have given the estimate.
C39_Witness ==
    /\ pc = "create"
    /\ restore_checkpoint = <<"m", "y", "_">> \o CheckpointName(1)
    /\ "total_episodes" \in DOMAIN metadata
    /\ metadata["total_episodes"] = 0
    /\ episode_offset = 0
    /\ start_iteration = 1

====
